---- MODULE Spec2Model ----
(***************************************************************************)
(* A model of the agent orchestration core of agent-demo: the Main         *)
(* tool-call loop (Agent.chatWithAnthropic), the delegate loops (Oracle,   *)
(* SearchAgent, Librarian, Subagent), the tool collections advertised to   *)
(* each role, the fan-out of parallel_subagents, the tool executors and    *)
(* truncateOutput.                                                         *)
(*                                                                         *)
(* Texts are TLA+ strings; JavaScript arrays are sequences.  A completion  *)
(* endpoint is an environment process: the Main endpoint answers with any  *)
(* turn of MainTurns, a delegate's endpoint follows a script fixed when    *)
(* the delegate starts (see Respond).                                      *)
(***************************************************************************)
EXTENDS Integers, Sequences, FiniteSets, TLC

VARIABLES
    config,        \* CONFIG and the API keys present: which provider path each role takes
    fs,            \* the working directory: path -> content, or NoFile
    mainPc,        \* where Agent.chatWithAnthropic stands
    conversation,  \* Agent.conversation
    mainResp,      \* response.content of the turn Main is processing
    mainIdx,       \* index of the block of mainResp whose executeTool is awaited
    toolResults,   \* the toolResults array of the current Main turn
    mainRequests,  \* model requests issued by the current chat() call
    ctx,           \* the delegate contexts, one per slot
    fanout,        \* the runParallelSubagents call in progress, if any
    truncation,    \* a call of truncateOutput on its own: arguments and returned value
    answer,        \* the line rl.question last handed to the callback of askQuestion
    feedback,      \* a call of runFeedbackLoops on its own: the directory and the results
    edit,          \* a call of editFile on its own: arguments, the directory before, the result
    loaded         \* a call of loadConfig: the user file and the returned configuration

vars == <<config, fs, mainPc, conversation, mainResp, mainIdx, toolResults,
          mainRequests, ctx, fanout, truncation, answer, feedback, edit, loaded>>

-----------------------------------------------------------------------------
(* Bounds of the model *)

MaxConv == 4        \* Main stops issuing requests once its conversation has this many messages
MaxRequests == 25   \* requests a delegate's context counts exactly; beyond, see Forget
MaxSlots == 2       \* delegate contexts that can exist at one time
MaxK == 21          \* scripts converge at response 1..MaxK, or never

Min(a, b) == IF a < b THEN a ELSE b
Max(a, b) == IF a > b THEN a ELSE b

\* F applied to the value of x: x is evaluated once, however often F uses it
Then(x, F(_)) == CHOOSE y \in {F(v) : v \in {x}} : TRUE

-----------------------------------------------------------------------------
(* Tool collections (tools.ts) *)

\* A tool definition: its name and the required fields of its input schema
Tool(name, required) == [name |-> name, required |-> required]

readFileTool == Tool("read_file", <<"path">>)
listFilesTool == Tool("list_files", <<>>)
codeSearchTool == Tool("code_search", <<"pattern">>)
editFileTool == Tool("edit_file", <<"path", "old_str", "new_str">>)
bashTool == Tool("bash", <<"command">>)
oracleTool == Tool("oracle", <<"query">>)
subagentTool == Tool("subagent", <<"task">>)
searchAgentTool == Tool("search_agent", <<"query">>)
parallelSubagentsTool == Tool("parallel_subagents", <<"tasks">>)
librarianTool == Tool("librarian", <<"query", "library">>)
feedbackLoopTool == Tool("feedback_loop", <<>>)

readOnlyTools == <<readFileTool, listFilesTool, codeSearchTool>>

writeTools == <<editFileTool, bashTool>>

mainAgentTools ==
    readOnlyTools \o writeTools \o
    <<oracleTool, subagentTool, searchAgentTool, parallelSubagentsTool, librarianTool,
      feedbackLoopTool>>

\* subagentTools with a meta-tool among them
subagentToolsWithOracle == readOnlyTools \o writeTools \o <<feedbackLoopTool, oracleTool>>

subagentTools == readOnlyTools \o writeTools \o <<feedbackLoopTool>>

searchAgentTools == readOnlyTools

librarianTools == readOnlyTools

\* The names of the tools that start another loop (Agent.executeTool)
MetaTools == {"oracle", "subagent", "search_agent", "parallel_subagents", "librarian"}

Range(s) == {s[i] : i \in DOMAIN s}

\* Oracle.toOpenAITools: one function declaration per tool, under the same name
toOpenAITools(tools) ==
    [i \in DOMAIN tools |->
        [type |-> "function",
         function |-> [name |-> tools[i].name, parameters |-> tools[i].required]]]

\* SearchAgent.toGeminiTools: one function declaration per tool, under the same name
toGeminiTools(tools) ==
    [i \in DOMAIN tools |->
        [name |-> tools[i].name,
         parameters |-> [type |-> "OBJECT", required |-> tools[i].required]]]

-----------------------------------------------------------------------------
(* truncateOutput (tool-implementations.ts) *)

\* String.prototype.substring(a, b): both indices clamped to [0, length], swapped if a > b
substring(s, a, b) ==
    LET ca == Max(0, Min(a, Len(s)))
        cb == Max(0, Min(b, Len(s)))
    IN SubSeq(s, Min(ca, cb) + 1, Max(ca, cb))

\* truncateOutput that truncates a text of exactly maxChars characters too
truncateOutputStrict(text, maxTokens) ==
    LET maxChars == maxTokens * 4
        keepChars == (maxChars \div 2) - 50
        beginning == substring(text, 0, keepChars)
        end == substring(text, Len(text) - keepChars, Len(text))
    IN IF Len(text) < maxChars
       THEN text
       ELSE beginning \o "\n\n... [TRUNCATED - " \o ToString(Len(text) - maxChars)
            \o " chars removed] ...\n\n" \o end

\* truncateOutput that keeps 50 characters more, not 50 less, on each side
truncateOutputKeepMore(text, maxTokens) ==
    LET maxChars == maxTokens * 4
        keepChars == (maxChars \div 2) + 50
        beginning == substring(text, 0, keepChars)
        end == substring(text, Len(text) - keepChars, Len(text))
    IN IF Len(text) <= maxChars
       THEN text
       ELSE beginning \o "\n\n... [TRUNCATED - " \o ToString(Len(text) - maxChars)
            \o " chars removed] ...\n\n" \o end

\* truncateOutput of tool-implementations.ts
truncateOutput(text, maxTokens) ==
    LET maxChars == maxTokens * 4
        keepChars == (maxChars \div 2) - 50
        beginning == substring(text, 0, keepChars)
        end == substring(text, Len(text) - keepChars, Len(text))
    IN IF Len(text) <= maxChars
       THEN text
       ELSE beginning \o "\n\n... [TRUNCATED - " \o ToString(Len(text) - maxChars)
            \o " chars removed] ...\n\n" \o end

\* Subagent.truncateOutput of the single-file agent: the same slices around a
\* longer marker
Subagent_truncateOutput(text, maxTokens) ==
    LET maxChars == maxTokens * 4
        keepChars == (maxChars \div 2) - 50
        beginning == substring(text, 0, keepChars)
        end == substring(text, Len(text) - keepChars, Len(text))
    IN IF Len(text) <= maxChars
       THEN text
       ELSE beginning \o "\n\n... [OUTPUT TRUNCATED - " \o ToString(Len(text) - maxChars)
            \o " chars removed to fit " \o ToString(maxTokens) \o " token limit] ...\n\n"
            \o end

\* No call of editFile on its own
NoEdit == [pc |-> "none"]

\* No call of loadConfig
NoLoad == [pc |-> "none"]

\* No call of truncateOutput on its own
NoCall == [pc |-> "none", text |-> "", maxTokens |-> 0, returned |-> ""]

\* text contains pat (String.prototype.includes)
includes(text, pat) ==
    \E i \in 0..(Len(text) - Len(pat)) : SubSeq(text, i + 1, i + Len(pat)) = pat

-----------------------------------------------------------------------------
(* Tool executors (tool-implementations.ts), over the modelled working directory *)

Paths == {"a.txt", "foo.txt", "nope.txt"}

PathOrder == <<"a.txt", "foo.txt", "nope.txt">>

NoFile == [exists |-> FALSE, content |-> ""]

File(content) == [exists |-> TRUE, content |-> content]

InitFs == [p \in Paths |-> IF p = "a.txt" THEN File("hello world hello") ELSE NoFile]

readFile(f, filePath) ==
    IF filePath \in Paths /\ f[filePath].exists
    THEN f[filePath].content
    ELSE "Error reading file: ENOENT: no such file or directory, open '" \o filePath \o "'"

RECURSIVE JoinLines(_)
JoinLines(lines) ==
    IF lines = <<>> THEN ""
    ELSE IF Len(lines) = 1 THEN lines[1]
    ELSE lines[1] \o "\n" \o JoinLines(Tail(lines))

listFiles(f, dirPath) ==
    LET results == SelectSeq(PathOrder, LAMBDA p : f[p].exists)
    IN IF dirPath # "."
       THEN "Error listing files: ENOENT: no such file or directory, scandir '" \o dirPath \o "'"
       ELSE IF results = <<>> THEN "No files found" ELSE JoinLines(results)

\* rg prints path:line:text for every matching file; without a match both rg
\* and the grep fallback leave the result empty
codeSearch(f, pattern) ==
    LET hits == SelectSeq(PathOrder, LAMBDA p : f[p].exists /\ includes(f[p].content, pattern))
        result == JoinLines([i \in DOMAIN hits |-> hits[i] \o ":1:" \o f[hits[i]].content])
    IN IF result = "" THEN "No matches found" ELSE result

\* index (0-based) of the first occurrence of pat in text at or after from, or -1
RECURSIVE indexOf(_, _, _)
indexOf(text, pat, from) ==
    IF from + Len(pat) > Len(text) THEN -1
    ELSE IF SubSeq(text, from + 1, from + Len(pat)) = pat THEN from
    ELSE indexOf(text, pat, from + 1)

\* content.split(oldStr).length - 1 for a non-empty oldStr
RECURSIVE countMatches(_, _, _)
countMatches(text, pat, from) ==
    LET i == indexOf(text, pat, from)
    IN IF i = -1 THEN 0 ELSE 1 + countMatches(text, pat, i + Len(pat))

\* The grave accent (U+0060), written so that no literal opens a quoted span
GraveAccent == SubSeq("`'", 1, 1)

\* The replacement text String.prototype.replace builds from newStr for a
\* string pattern: $$ is a dollar sign, $& the match, $ with a grave accent the
\* text before the match, $ with an apostrophe the text after it; everything
\* else is literal
RECURSIVE getSubstitution(_, _, _, _)
getSubstitution(newStr, matched, before, after) ==
    IF newStr = "" THEN ""
    ELSE LET two == substring(newStr, 0, 2)
             rest2 == SubSeq(newStr, 3, Len(newStr))
         IN IF two = "$$" THEN "$" \o getSubstitution(rest2, matched, before, after)
            ELSE IF two = "$&" THEN matched \o getSubstitution(rest2, matched, before, after)
            ELSE IF two = "$" \o GraveAccent THEN before \o getSubstitution(rest2, matched, before, after)
            ELSE IF two = "$'" THEN after \o getSubstitution(rest2, matched, before, after)
            ELSE SubSeq(newStr, 1, 1)
                 \o getSubstitution(SubSeq(newStr, 2, Len(newStr)), matched, before, after)

\* content.replace(oldStr, newStr): the first occurrence only
replace(content, oldStr, newStr) ==
    LET i == indexOf(content, oldStr, 0)
        before == SubSeq(content, 1, i)
        after == SubSeq(content, i + Len(oldStr) + 1, Len(content))
    IN IF i = -1 THEN content
       ELSE before \o getSubstitution(newStr, oldStr, before, after) \o after

\* A write that keeps what the file held and adds data at its end
appendFileSync(f, filePath, data) ==
    [f EXCEPT ![filePath] = File(f[filePath].content \o data)]

\* fs.writeFileSync(absolutePath, data): the file holds data and nothing else
writeFileSync(f, filePath, data) == [f EXCEPT ![filePath] = File(data)]

\* A return of editFile after the file was opened for writing: the file is
\* there and empty
ReturnAfterOpen(f, filePath, message) ==
    [result |-> message,
     fs |-> IF filePath \in Paths THEN [f EXCEPT ![filePath] = File("")] ELSE f]

\* A return of editFile that no write precedes
EarlyReturn(f, filePath, message) == [result |-> message, fs |-> f]

\* editFile returns its result string and the working directory it leaves
editFile(f, filePath, oldStr, newStr) ==
    IF filePath \notin Paths
    THEN EarlyReturn(f, filePath,
                     "Error editing file: EACCES: permission denied, open '" \o filePath \o "'")
    ELSE IF ~f[filePath].exists
    THEN IF oldStr = ""
         THEN [result |-> "Created new file: " \o filePath,
               fs |-> writeFileSync(f, filePath, newStr)]
         ELSE EarlyReturn(f, filePath, "Error: File not found: " \o filePath)
    ELSE LET content == f[filePath].content
             matches == countMatches(content, oldStr, 0)
         IN IF oldStr = ""
            THEN [result |-> "Replaced entire file: " \o filePath,
                  fs |-> writeFileSync(f, filePath, newStr)]
            ELSE IF ~includes(content, oldStr)
            THEN EarlyReturn(f, filePath,
                             "Error: Could not find the specified text in " \o filePath
                             \o ". Make sure the old_str matches exactly.")
            ELSE IF matches > 1
            THEN EarlyReturn(f, filePath,
                             "Error: Found " \o ToString(matches)
                             \o " matches for the specified text. Please use a more specific string to avoid ambiguity.")
            ELSE [result |-> "Successfully edited " \o filePath,
                  fs |-> writeFileSync(f, filePath, replace(content, oldStr, newStr))]

\* bash: execSync of the command; the commands of the model and what they print
bash(command) ==
    LET ok == command \in {"true", "echo hi"}
        stdout == IF command = "echo hi" THEN "hi\n" ELSE ""
        stderr == IF command = "ls /nonexistent"
                  THEN "ls: cannot access '/nonexistent': No such file or directory\n"
                  ELSE ""
    IN IF ok
       THEN (IF stdout # "" THEN stdout ELSE "Command completed (no output)")
       ELSE LET out == stdout \o (IF stderr # "" THEN "\nSTDERR: " \o stderr ELSE "")
            IN IF out # "" THEN out ELSE "Error: Command failed: " \o command

\* No call of runFeedbackLoops on its own
NoFeedback == [pc |-> "none"]

\* One execSync call: ok = the command exited with 0, stdout = what it wrote
\* (stderr included, the commands end in 2>&1), message = error.message when
\* it failed; state says what the working directory is like for this check
\* (pass, fail, or absent: the tool or its configuration is missing)
Run(state, ok, stdout, message) ==
    [state |-> state, ok |-> ok, stdout |-> stdout, message |-> message]

\* error.stdout || error.message
ErrorOutput(run) == IF run.stdout # "" THEN run.stdout ELSE run.message

\* A FeedbackResult; an absent error is "", an absent skipped is FALSE
FeedbackResult(passed, output, error, skipped) ==
    [passed |-> passed, output |-> output, error |-> error, skipped |-> skipped]

\* 1. TypeScript type checking: npx tsc --noEmit
typescriptCheck(run) ==
    IF run.ok
    THEN FeedbackResult(TRUE, IF run.stdout # "" THEN run.stdout ELSE "No type errors", "", FALSE)
    ELSE FeedbackResult(FALSE, ErrorOutput(run), "TypeScript type errors found", FALSE)

\* The test command the detection of the runner selects
testCmd(vitest, jest) ==
    IF vitest THEN "npx vitest run 2>&1"
    ELSE IF jest THEN "npx jest 2>&1"
    ELSE "npm test 2>&1"

\* 2. Tests
testsCheck(run) ==
    IF run.ok
    THEN FeedbackResult(TRUE, run.stdout, "", FALSE)
    ELSE IF includes(ErrorOutput(run), "no test") \/ includes(ErrorOutput(run), "No tests found")
    THEN FeedbackResult(TRUE, "No tests configured", "", TRUE)
    ELSE FeedbackResult(FALSE, ErrorOutput(run), "Tests failed", FALSE)

\* 3. Linting: npx eslint .
lintCheck(run) ==
    IF run.ok
    THEN FeedbackResult(TRUE, IF run.stdout # "" THEN run.stdout ELSE "No lint errors", "", FALSE)
    ELSE IF \/ includes(ErrorOutput(run), "No ESLint configuration")
            \/ includes(ErrorOutput(run), "eslint: not found")
    THEN FeedbackResult(TRUE, "ESLint not configured", "", TRUE)
    ELSE FeedbackResult(FALSE, ErrorOutput(run), "Lint errors found", FALSE)

\* results.allPassed with a skipped check counted as not passed
allPassedNoSkips(typescript, tests, lint) ==
    /\ typescript.passed /\ ~typescript.skipped
    /\ tests.passed /\ ~tests.skipped
    /\ lint.passed /\ ~lint.skipped

\* results.allPassed (no result is null once the three checks have run)
allPassed(typescript, tests, lint) == typescript.passed /\ tests.passed /\ lint.passed

\* One line of results.summary (the check mark and the cross are left out)
SummaryLine(label, r, skip) ==
    label \o ": " \o (IF r.passed THEN (IF skip /\ r.skipped THEN "SKIP" ELSE "PASS") ELSE "FAIL")

\* runFeedbackLoops in a working directory where the commands run as env says
runFeedbackLoops(env) ==
    LET typescript == typescriptCheck(env.tsc)
        tests == testsCheck(env.test)
        lint == lintCheck(env.eslint)
        all == allPassed(typescript, tests, lint)
    IN [typescript |-> typescript, tests |-> tests, lint |-> lint, allPassed |-> all,
        summary |-> "Feedback Loop Results:\n"
                    \o SummaryLine("TypeScript", typescript, FALSE) \o "\n"
                    \o SummaryLine("Tests", tests, TRUE) \o "\n"
                    \o SummaryLine("Lint", lint, TRUE) \o "\n\n"
                    \o (IF all THEN "All checks passed!"
                        ELSE "Some checks failed - fix and retry")]

\* The characters of a failed check's output Agent.runFeedbackLoop passes on
OutputCap == 2000

\* text from index from on, with the character at each index of at replaced by by
RECURSIVE replaceAt(_, _, _, _)
replaceAt(text, at, by, from) ==
    IF at = {} THEN SubSeq(text, from + 1, Len(text))
    ELSE LET i == CHOOSE k \in at : \A j \in at : k <= j
         IN SubSeq(text, from + 1, i) \o by \o replaceAt(text, at \ {i}, by, i + 1)

\* text with every occurrence of the character ch replaced by by
replaceAll(text, ch, by) ==
    replaceAt(text, {i \in 0..(Len(text) - 1) : SubSeq(text, i + 1, i + 1) = ch}, by, 0)

\* JSON.stringify of a string: quoted, with the quotes and the line feeds in it escaped
JSONString(str) ==
    "\"" \o replaceAll(replaceAll(str, "\"", "\\\""), "\n", "\\n") \o "\""

\* JSON.stringify of an optional string: <<>> stands for null
JSONNullable(opt) == IF opt = <<>> THEN "null" ELSE JSONString(opt[1])

JSONBoolean(b) == IF b THEN "true" ELSE "false"

\* One check of the object Agent.runFeedbackLoop serialises: the output of a
\* failed check cut to its first OutputCap characters, null for a passed one
Reported(r) ==
    [passed |-> r.passed, skipped |-> r.skipped,
     output |-> IF r.passed THEN <<>> ELSE <<substring(r.output, 0, OutputCap)>>]

\* JSON.stringify(..., null, 2) of one check of that object; an undefined
\* skipped is left out, withSkipped says whether the object has the key at all
stringifyReported(key, c, withSkipped) ==
    "  \"" \o key \o "\": {\n    \"passed\": " \o JSONBoolean(c.passed)
    \o (IF withSkipped /\ c.skipped THEN ",\n    \"skipped\": true" ELSE "")
    \o ",\n    \"output\": " \o JSONNullable(c.output) \o "\n  }"

\* Agent.runFeedbackLoop: one call of runFeedbackLoops, whatever _fixAndRetry
\* is, and the JSON text of summary, allPassed and the three checks
runFeedbackLoop(env, fixAndRetry) ==
    LET results == runFeedbackLoops(env)
        typescript == Reported(results.typescript)
        tests == Reported(results.tests)
        lint == Reported(results.lint)
    IN [runs |-> 1, results |-> results,
        typescript |-> typescript, tests |-> tests, lint |-> lint,
        returned |-> "{\n  \"summary\": " \o JSONString(results.summary)
                      \o ",\n  \"allPassed\": " \o JSONBoolean(results.allPassed) \o ",\n"
                      \o stringifyReported("typescript", typescript, FALSE) \o ",\n"
                      \o stringifyReported("tests", tests, TRUE) \o ",\n"
                      \o stringifyReported("lint", lint, TRUE) \o "\n}"]

\* JSON.stringify(..., null, 2) of one FeedbackResult
stringifyFeedbackResult(key, r) ==
    "  \"" \o key \o "\": {\n    \"passed\": " \o JSONBoolean(r.passed)
    \o ",\n    \"output\": " \o JSONString(r.output)
    \o (IF r.error # "" THEN ",\n    \"error\": " \o JSONString(r.error) ELSE "")
    \o (IF r.skipped THEN ",\n    \"skipped\": true" ELSE "")
    \o "\n  }"

\* Subagent.executeTool, case feedback_loop: JSON.stringify(results, null, 2)
\* of what runFeedbackLoops returns
subagentFeedbackLoop(env) ==
    LET results == runFeedbackLoops(env)
        whole(r) == [passed |-> r.passed, skipped |-> r.skipped, output |-> <<r.output>>]
    IN [runs |-> 1, results |-> results,
        typescript |-> whole(results.typescript), tests |-> whole(results.tests),
        lint |-> whole(results.lint),
        returned |-> "{\n" \o stringifyFeedbackResult("typescript", results.typescript) \o ",\n"
                      \o stringifyFeedbackResult("tests", results.tests) \o ",\n"
                      \o stringifyFeedbackResult("lint", results.lint) \o ",\n"
                      \o "  \"allPassed\": " \o JSONBoolean(results.allPassed)
                      \o ",\n  \"summary\": " \o JSONString(results.summary) \o "\n}"]

\* The feedback_loop tool, serialised by JSON.stringify: the modelled working
\* directory holds no TypeScript project, so the type check fails
feedback_loop(workingDir) ==
    "{\"typescript\": {\"passed\": false}, \"allPassed\": false, \"summary\": \"Feedback Loop Results\"}"

-----------------------------------------------------------------------------
(* Turns, tool calls and tool results *)

\* A text block of a response
TextPart(t) ==
    [type |-> "text", text |-> t, id |-> "", name |-> "", input |-> <<>>, wellFormed |-> TRUE]

\* A tool call of a response; wellFormed says whether the arguments, where the
\* protocol sends them as JSON text, parse
ToolUse(name, input) ==
    [type |-> "tool_use", text |-> "", id |-> "", name |-> name, input |-> input,
     wellFormed |-> TRUE]

\* A tool call whose arguments text is not JSON (message-structured protocol)
MalformedToolUse(name) == [ToolUse(name, <<>>) EXCEPT !.wellFormed = FALSE]

\* The endpoint numbers the calls of its n-th response
WithIds(content, n) ==
    [i \in DOMAIN content |->
        IF content[i].type = "tool_use"
        THEN [content[i] EXCEPT !.id = "toolu_" \o ToString(n) \o "_" \o ToString(i)]
        ELSE content[i]]

IsToolUse(p) == p.type = "tool_use"

\* input.f, with the value JavaScript code falls back to when the field is absent
Field(input, f, default) == IF f \in DOMAIN input THEN input[f] ELSE default

ToolResultBlock(id, content) ==
    [type |-> "tool_result", tool_use_id |-> id, content |-> content]

\* What an executor hands back: its string, the working directory it leaves,
\* and the delegate it started ("none": it started none)
Executed(result, f, spawn) == [result |-> result, fs |-> f, spawn |-> spawn]

\* path.resolve(undefined) throws inside the executor's try block
NoPathError(prefix) ==
    prefix \o "The \"paths[0]\" argument must be of type string. Received undefined"

\* Oracle.executeReadOnlyTool, SearchAgent.executeReadOnlyTool, Librarian.executeReadOnlyTool
executeReadOnlyTool(f, name, input) ==
    CASE name = "read_file" ->
           Executed(IF "path" \in DOMAIN input THEN readFile(f, input.path)
                    ELSE NoPathError("Error reading file: "), f, "none")
      [] name = "list_files" -> Executed(listFiles(f, Field(input, "path", ".")), f, "none")
      [] name = "code_search" ->
           Executed(codeSearch(f, Field(input, "pattern", "undefined")), f, "none")
      [] OTHER -> Executed("Unknown tool: " \o name, f, "none")

\* Subagent.executeTool with a case that spawns a subagent
SubagentExecuteToolSpawning(f, name, input) ==
    CASE name = "read_file" ->
           Executed(IF "path" \in DOMAIN input THEN readFile(f, input.path)
                    ELSE NoPathError("Error reading file: "), f, "none")
      [] name = "list_files" -> Executed(listFiles(f, Field(input, "path", ".")), f, "none")
      [] name = "edit_file" ->
           IF "path" \in DOMAIN input
           THEN LET e == editFile(f, input.path, Field(input, "old_str", "undefined"),
                                  Field(input, "new_str", "undefined"))
                IN Executed(e.result, e.fs, "none")
           ELSE Executed(NoPathError("Error editing file: "), f, "none")
      [] name = "bash" -> Executed(bash(Field(input, "command", "undefined")), f, "none")
      [] name = "code_search" ->
           Executed(codeSearch(f, Field(input, "pattern", "undefined")), f, "none")
      [] name = "feedback_loop" ->
           Executed(feedback_loop(Field(input, "working_directory", ".")), f, "none")
      [] name = "subagent" -> Executed("", f, "subagent")
      [] OTHER -> Executed("Unknown tool: " \o name, f, "none")

\* Subagent.executeTool
SubagentExecuteTool(f, name, input) ==
    CASE name = "read_file" ->
           Executed(IF "path" \in DOMAIN input THEN readFile(f, input.path)
                    ELSE NoPathError("Error reading file: "), f, "none")
      [] name = "list_files" -> Executed(listFiles(f, Field(input, "path", ".")), f, "none")
      [] name = "edit_file" ->
           IF "path" \in DOMAIN input
           THEN LET e == editFile(f, input.path, Field(input, "old_str", "undefined"),
                                  Field(input, "new_str", "undefined"))
                IN Executed(e.result, e.fs, "none")
           ELSE Executed(NoPathError("Error editing file: "), f, "none")
      [] name = "bash" -> Executed(bash(Field(input, "command", "undefined")), f, "none")
      [] name = "code_search" ->
           Executed(codeSearch(f, Field(input, "pattern", "undefined")), f, "none")
      [] name = "feedback_loop" ->
           Executed(feedback_loop(Field(input, "working_directory", ".")), f, "none")
      [] OTHER -> Executed("Unknown tool: " \o name, f, "none")

-----------------------------------------------------------------------------
(* Delegate contexts: the local variables of one consult/search/research/spawn call *)

Slots == 1..MaxSlots

NoScript == [K |-> 0, pattern |-> 1, final |-> 1, failAt |-> 0]

IdleCtx ==
    [pc |-> "idle", role |-> "none", path |-> "none", parent |-> 0,
     messages |-> <<>>, iterations |-> 0, totalToolCalls |-> 0, maxOutputTokens |-> 0,
     script |-> NoScript, requests |-> 0, rounds |-> 0,
     tools |-> <<>>, firstTools |-> <<>>, result |-> "", outcome |-> "none"]

\* A message content that is a string (null: the empty string) is held as the
\* text block it abbreviates, so that every content is a sequence of blocks
StringContent(text) == IF text = "" THEN <<>> ELSE <<TextPart(text)>>

StringOf(content) == IF content = <<>> THEN "" ELSE content[1].text

UserMessage(text) == [role |-> "user", content |-> StringContent(text)]

\* A fresh context; parent is 0 when Main (or a direct caller) starts it
NewCtx(role, path, parent, userMessage, maxOutputTokens, script) ==
    [IdleCtx EXCEPT !.role = role, !.path = path, !.parent = parent,
                    !.messages = <<UserMessage(userMessage)>>,
                    !.maxOutputTokens = maxOutputTokens, !.script = script]

\* A request to the completion endpoint that advertises the previous tools
\* plus every tool the model has asked for
RequestGrowing(c, wireTools) ==
    [c EXCEPT !.pc = "awaiting", !.requests = @ + 1,
              !.tools = IF c.requests = 0 THEN wireTools ELSE @ \o <<oracleTool>>,
              !.firstTools = IF c.requests = 0 THEN wireTools ELSE @]

\* A request to the completion endpoint: messages.create / completions.create /
\* sendMessage with the tools the call site passes
Request(c, wireTools) ==
    [c EXCEPT !.pc = "awaiting", !.requests = @ + 1, !.tools = wireTools,
              !.firstTools = IF c.requests = 0 THEN wireTools ELSE @]

\* A return statement of the delegate
Return(c, text, outcome) == [c EXCEPT !.pc = "done", !.result = text, !.outcome = outcome]

\* The executor a role's loop calls
ExecFor(role, f, name, input) ==
    IF role = "subagent" THEN SubagentExecuteTool(f, name, input)
    ELSE executeReadOnlyTool(f, name, input)

BlockState(f, n) ==
    [fs |-> f, toolResults |-> <<>>, textResponse |-> "", toolCalls |-> n, spawns |-> <<>>]

\* One block of response.content, with the result unshifted instead of pushed
RunBlockReversed(role, block, st) ==
    IF block.type = "text"
    THEN [st EXCEPT !.textResponse = IF role = "oracle" THEN @ \o block.text ELSE block.text]
    ELSE IF block.type = "tool_use"
    THEN Then(ExecFor(role, st.fs, block.name, block.input),
              LAMBDA e :
                [st EXCEPT !.fs = e.fs,
                           !.toolResults = <<ToolResultBlock(block.id, e.result)>> \o @,
                           !.toolCalls = @ + 1,
                           !.spawns = IF e.spawn = "none" THEN @ ELSE Append(@, e.spawn)])
    ELSE st

\* The body of for (const block of response.content) of the block-structured
\* loops: a text block sets (Oracle: extends) textResponse, a tool_use block
\* is executed at once and its result pushed
RunBlock(role, block, st) ==
    IF block.type = "text"
    THEN [st EXCEPT !.textResponse = IF role = "oracle" THEN @ \o block.text ELSE block.text]
    ELSE IF block.type = "tool_use"
    THEN Then(ExecFor(role, st.fs, block.name, block.input),
              LAMBDA e :
                [st EXCEPT !.fs = e.fs,
                           !.toolResults = Append(@, ToolResultBlock(block.id, e.result)),
                           !.toolCalls = @ + 1,
                           !.spawns = IF e.spawn = "none" THEN @ ELSE Append(@, e.spawn)])
    ELSE st

\* for (const block of response.content), from block i on
RECURSIVE RunBlocks(_, _, _, _)
RunBlocks(role, content, i, st) ==
    IF i > Len(content) THEN st
    ELSE Then(RunBlock(role, content[i], st),
              LAMBDA next : RunBlocks(role, content, i + 1, next))

\* What a handler leaves: the context, the working directory, the delegates started
Handled(c, f, spawns) == [c |-> c, fs |-> f, spawns |-> spawns]

AssistantMessage(content) == [role |-> "assistant", content |-> content]

ResultsMessage(results) == [role |-> "user", content |-> results]

(* Subagent.spawn *)

SubagentCap == 20

\* spawnLoop without the loop test
spawnLoopNoCap(c) == Request([c EXCEPT !.iterations = @ + 1], subagentTools)

\* spawnLoop with the loop test off by one
spawnLoopOffByOne(c) ==
    IF c.iterations < SubagentCap - 1
    THEN Request([c EXCEPT !.iterations = @ + 1], subagentTools)
    ELSE Return(c, truncateOutput("Subagent reached maximum iterations.", c.maxOutputTokens),
                "exhausted")

\* while (iterations < maxIterations) { iterations++; request ... } and the code after the loop
spawnLoop(c) ==
    IF c.iterations < SubagentCap
    THEN Request([c EXCEPT !.iterations = @ + 1], subagentTools)
    ELSE Return(c, truncateOutput("Subagent reached maximum iterations.", c.maxOutputTokens),
                "exhausted")

spawnStart(parent, task, maxOutputTokens, script) ==
    spawnLoop(NewCtx("subagent", "anthropic", parent, task, maxOutputTokens, script))

\* spawnOnResponse that gives up when an executor reports an error
spawnOnResponseAbortOnError(c, response, f) ==
    LET c1 == [c EXCEPT !.messages = Append(@, AssistantMessage(response.content))]
    IN Then(RunBlocks("subagent", response.content, 1, BlockState(f, c.totalToolCalls)),
         LAMBDA st :
           IF Len(st.toolResults) = 0
             THEN Handled(Return(c1, truncateOutput(IF st.textResponse # "" THEN st.textResponse
                                                    ELSE "Task completed", c.maxOutputTokens),
                                 "converged"),
                          st.fs, st.spawns)
             ELSE IF \E i \in DOMAIN st.toolResults : includes(st.toolResults[i].content, "Error")
             THEN Handled(Return(c1, "Subagent error: tool failed", "error"), st.fs, st.spawns)
             ELSE Handled(spawnLoop([c1 EXCEPT !.messages = Append(@, ResultsMessage(st.toolResults)),
                                               !.totalToolCalls = st.toolCalls,
                                               !.rounds = @ + 1]),
                          st.fs, st.spawns))

\* spawnOnResponse that returns the final text as the endpoint gave it
spawnOnResponseUnbudgeted(c, response, f) ==
    LET c1 == [c EXCEPT !.messages = Append(@, AssistantMessage(response.content))]
    IN Then(RunBlocks("subagent", response.content, 1, BlockState(f, c.totalToolCalls)),
         LAMBDA st :
           IF Len(st.toolResults) = 0
             THEN Handled(Return(c1, IF st.textResponse # "" THEN st.textResponse
                                     ELSE "Task completed",
                                 "converged"),
                          st.fs, st.spawns)
             ELSE Handled(spawnLoop([c1 EXCEPT !.messages = Append(@, ResultsMessage(st.toolResults)),
                                               !.totalToolCalls = st.toolCalls,
                                               !.rounds = @ + 1]),
                          st.fs, st.spawns))

\* The body of the while loop of Subagent.spawn after the response has come
spawnOnResponse(c, response, f) ==
    LET c1 == [c EXCEPT !.messages = Append(@, AssistantMessage(response.content))]
    IN Then(RunBlocks("subagent", response.content, 1, BlockState(f, c.totalToolCalls)),
         LAMBDA st :
           IF Len(st.toolResults) = 0
             THEN Handled(Return(c1, truncateOutput(IF st.textResponse # "" THEN st.textResponse
                                                    ELSE "Task completed", c.maxOutputTokens),
                                 "converged"),
                          st.fs, st.spawns)
             ELSE Handled(spawnLoop([c1 EXCEPT !.messages = Append(@, ResultsMessage(st.toolResults)),
                                               !.totalToolCalls = st.toolCalls,
                                               !.rounds = @ + 1]),
                          st.fs, st.spawns))

spawnOnError(c, message) == Return(c, "Subagent error: " \o message, "error")

(* Librarian.research *)

LibrarianCap == 15

researchLoop(c) ==
    IF c.iterations < LibrarianCap
    THEN Request([c EXCEPT !.iterations = @ + 1], librarianTools)
    ELSE Return(c, "Librarian reached maximum iterations", "exhausted")

researchStart(parent, query, library, script) ==
    researchLoop(NewCtx("librarian", "anthropic", parent,
        "Research question about " \o library \o ": " \o query
        \o "\n\nSearch the local codebase for existing usage of " \o library
        \o ", then provide your analysis.", 0, script))

researchOnResponse(c, response, f) ==
    LET c1 == [c EXCEPT !.messages = Append(@, AssistantMessage(response.content))]
    IN Then(RunBlocks("librarian", response.content, 1, BlockState(f, c.totalToolCalls)),
         LAMBDA st :
           IF Len(st.toolResults) = 0
             THEN Handled(Return(c1, IF st.textResponse # "" THEN st.textResponse
                                     ELSE "Research completed", "converged"),
                          st.fs, st.spawns)
             ELSE Handled(researchLoop([c1 EXCEPT !.messages = Append(@, ResultsMessage(st.toolResults)),
                                                  !.totalToolCalls = st.toolCalls,
                                                  !.rounds = @ + 1]),
                          st.fs, st.spawns))

researchOnError(c, message) == Return(c, "Librarian error: " \o message, "error")

(* SearchAgent.searchWithAnthropic *)

SearchCap == 10

searchWithAnthropicLoop(c) ==
    IF c.iterations < SearchCap
    THEN Request([c EXCEPT !.iterations = @ + 1], searchAgentTools)
    ELSE Return(c, "Search reached maximum iterations", "exhausted")

searchWithAnthropicStart(parent, query, script) ==
    searchWithAnthropicLoop(NewCtx("search", "anthropic", parent, query, 0, script))

searchWithAnthropicOnResponse(c, response, f) ==
    LET c1 == [c EXCEPT !.messages = Append(@, AssistantMessage(response.content))]
    IN Then(RunBlocks("search", response.content, 1, BlockState(f, c.totalToolCalls)),
         LAMBDA st :
           IF Len(st.toolResults) = 0
             THEN Handled(Return(c1, st.textResponse, "converged"), st.fs, st.spawns)
             ELSE Handled(searchWithAnthropicLoop(
                              [c1 EXCEPT !.messages = Append(@, ResultsMessage(st.toolResults)),
                                         !.totalToolCalls = st.toolCalls,
                                         !.rounds = @ + 1]),
                          st.fs, st.spawns))

searchWithAnthropicOnError(c, message) == Return(c, "Search error: " \o message, "error")

(* SearchAgent.searchWithGemini *)

FunctionResponse(name, result) ==
    [type |-> "functionResponse", name |-> name, result |-> result]

\* The body of for (const part of functionCalls): the call is executed at once
\* and its response pushed; the part-structured protocol has no call id
RunFunctionCall(part, st) ==
    Then(executeReadOnlyTool(st.fs, part.name, part.input),
         LAMBDA e :
           [st EXCEPT !.fs = e.fs,
                      !.toolResults = Append(@, FunctionResponse(part.name, e.result)),
                      !.toolCalls = @ + 1,
                      !.spawns = IF e.spawn = "none" THEN @ ELSE Append(@, e.spawn)])

\* for (const part of functionCalls), from call i on
RECURSIVE RunFunctionCalls(_, _, _)
RunFunctionCalls(functionCalls, i, st) ==
    IF i > Len(functionCalls) THEN st
    ELSE Then(RunFunctionCall(functionCalls[i], st),
              LAMBDA next : RunFunctionCalls(functionCalls, i + 1, next))

\* parts.find((p) => "text" in p && p.text)?.text || "Search completed"
GeminiFinalText(parts) ==
    LET texts == SelectSeq(parts, LAMBDA p : p.type = "text" /\ p.text # "")
    IN IF texts = <<>> THEN "Search completed" ELSE texts[1].text

\* startChat with the function declarations, then the first sendMessage, which
\* is issued before the loop is entered
searchWithGeminiStart(parent, query, script) ==
    Request([NewCtx("search", "gemini", parent, query, 0, script) EXCEPT !.path = "gemini"],
            toGeminiTools(searchAgentTools))

\* The loop test and the loop body of searchWithGemini, run when a response arrives
searchWithGeminiOnResponse(c, response, f) ==
    LET c1 == [c EXCEPT !.iterations = @ + 1,
                        !.messages = Append(@, [role |-> "model", content |-> response.content])]
        functionCalls == SelectSeq(response.content, IsToolUse)
    IN IF ~(c.iterations < SearchCap)
       THEN Handled(Return(c, "Search reached maximum iterations", "exhausted"), f, <<>>)
       ELSE IF ~response.candidate
       THEN Handled(Return([c EXCEPT !.iterations = @ + 1],
                           "Search reached maximum iterations", "exhausted"), f, <<>>)
       ELSE IF Len(functionCalls) = 0
       THEN Handled(Return(c1, GeminiFinalText(response.content), "converged"), f, <<>>)
       ELSE Then(RunFunctionCalls(functionCalls, 1, BlockState(f, c.totalToolCalls)),
              LAMBDA st :
                Handled(Request([c1 EXCEPT !.messages = Append(@, ResultsMessage(st.toolResults)),
                                           !.totalToolCalls = st.toolCalls,
                                           !.rounds = @ + 1],
                                toGeminiTools(searchAgentTools)),
                        st.fs, st.spawns))

searchWithGeminiOnError(c, message) == Return(c, "Search error: " \o message, "error")

(* Oracle.consultAnthropic *)

consultAnthropicStart(parent, userMessage, script) ==
    Request(NewCtx("oracle", "anthropic", parent, userMessage, 0, script), readOnlyTools)

consultAnthropicOnResponse(c, response, f) ==
    LET c1 == [c EXCEPT !.messages = Append(@, AssistantMessage(response.content))]
    IN Then(RunBlocks("oracle", response.content, 1, BlockState(f, c.totalToolCalls)),
         LAMBDA st :
           IF Len(st.toolResults) = 0
             THEN Handled(Return(c1, st.textResponse, "converged"), st.fs, st.spawns)
             ELSE Handled(Request([c1 EXCEPT !.messages = Append(@, ResultsMessage(st.toolResults)),
                                             !.rounds = @ + 1],
                                  readOnlyTools),
                          st.fs, st.spawns))

(* Oracle.consultOpenAI *)

RECURSIVE JoinTexts(_)
JoinTexts(parts) ==
    IF parts = <<>> THEN ""
    ELSE (IF parts[1].type = "text" THEN parts[1].text ELSE "") \o JoinTexts(Tail(parts))

\* response.choices[0].message of the message-structured protocol: one content
\* string and the list of tool calls
OpenAIMessage(content) ==
    [role |-> "assistant", content |-> StringContent(JoinTexts(content)),
     tool_calls |-> SelectSeq(content, IsToolUse)]

ToolMessage(id, content) ==
    [role |-> "tool", tool_call_id |-> id, content |-> StringContent(content)]

\* The body of for (const toolCall of message.tool_calls): JSON.parse of the
\* arguments, the execution, and the push of one tool message; a parse error
\* leaves the loop by exception (thrown |-> TRUE)
RunToolCall(toolCall, st) ==
    IF ~toolCall.wellFormed
    THEN [st EXCEPT !.thrown = TRUE]
    ELSE Then(executeReadOnlyTool(st.fs, toolCall.name, toolCall.input),
              LAMBDA e :
                [st EXCEPT !.fs = e.fs,
                           !.messages = Append(@, ToolMessage(toolCall.id, e.result)),
                           !.spawns = IF e.spawn = "none" THEN @ ELSE Append(@, e.spawn)])

\* for (const toolCall of message.tool_calls), from call i on
RECURSIVE RunToolCalls(_, _, _)
RunToolCalls(toolCalls, i, st) ==
    IF i > Len(toolCalls) \/ st.thrown THEN st
    ELSE Then(RunToolCall(toolCalls[i], st),
              LAMBDA next : RunToolCalls(toolCalls, i + 1, next))

consultOpenAIStart(parent, systemPrompt, userMessage, script) ==
    Request([NewCtx("oracle", "openai", parent, userMessage, 0, script)
                EXCEPT !.messages = <<[role |-> "system", content |-> StringContent(systemPrompt)],
                                      [role |-> "user", content |-> StringContent(userMessage)]>>],
            toOpenAITools(readOnlyTools))

consultOpenAIOnResponse(c, response, f) ==
    LET message == OpenAIMessage(response.content)
        c1 == [c EXCEPT !.messages = Append(@, message)]
    IN IF Len(message.tool_calls) > 0
       THEN Then(RunToolCalls(message.tool_calls, 1,
                              [fs |-> f, messages |-> c1.messages, spawns |-> <<>>,
                               thrown |-> FALSE]),
              LAMBDA st :
                IF st.thrown
                THEN Handled(Return([c1 EXCEPT !.messages = st.messages],
                                    "Oracle error: Unexpected token in JSON", "error"),
                             st.fs, st.spawns)
                ELSE Handled(Request([c1 EXCEPT !.messages = st.messages, !.rounds = @ + 1],
                                     toOpenAITools(readOnlyTools)),
                             st.fs, st.spawns))
       ELSE Handled(Return(c1, IF StringOf(message.content) # "" THEN StringOf(message.content)
                               ELSE "No response from oracle", "converged"),
                    f, <<>>)

\* the catch block of Oracle.consult
consultOnError(c, message) == Return(c, "Oracle error: " \o message, "error")

OracleSystemPrompt == "You are the Oracle - a powerful reasoning model consulted for complex analysis."

\* Oracle.consult: the user message and the provider path CONFIG selects
consult(cfg, parent, query, context, script) ==
    LET userMessage == IF context # ""
                       THEN "Context:\n" \o context \o "\n\nQuestion: " \o query
                       ELSE query
    IN IF cfg.oracleOpenAI
       THEN consultOpenAIStart(parent, OracleSystemPrompt, userMessage, script)
       ELSE consultAnthropicStart(parent, userMessage, script)

\* SearchAgent.search: the provider path CONFIG selects
search(cfg, parent, query, script) ==
    IF cfg.searchGemini
    THEN searchWithGeminiStart(parent, query, script)
    ELSE searchWithAnthropicStart(parent, query, script)

\* The handler that runs when the endpoint of context c answers
OnResponse(c, response, f) ==
    CASE c.role = "subagent" -> spawnOnResponse(c, response, f)
      [] c.role = "librarian" -> researchOnResponse(c, response, f)
      [] c.role = "search" /\ c.path = "gemini" -> searchWithGeminiOnResponse(c, response, f)
      [] c.role = "search" /\ c.path = "anthropic" -> searchWithAnthropicOnResponse(c, response, f)
      [] c.role = "oracle" /\ c.path = "openai" -> consultOpenAIOnResponse(c, response, f)
      [] c.role = "oracle" /\ c.path = "anthropic" -> consultAnthropicOnResponse(c, response, f)

\* The catch block that runs when the endpoint of context c fails
OnError(c, message) ==
    CASE c.role = "subagent" -> spawnOnError(c, message)
      [] c.role = "librarian" -> researchOnError(c, message)
      [] c.role = "search" /\ c.path = "gemini" -> searchWithGeminiOnError(c, message)
      [] c.role = "search" /\ c.path = "anthropic" -> searchWithAnthropicOnError(c, message)
      [] c.role = "oracle" -> consultOnError(c, message)

-----------------------------------------------------------------------------
(* The completion endpoint of a delegate: a script fixed when the delegate starts *)

LongText ==
    "The module exports five functions. readFile returns the content, listFiles walks two levels, editFile replaces one match, bash runs a command."

\* The turns with tool calls a delegate's endpoint can answer with
ToolTurns ==
    << <<ToolUse("read_file", [path |-> "a.txt"])>>,
       <<TextPart("Let me look."),
         ToolUse("read_file", [path |-> "nope.txt"]),
         ToolUse("oracle", [query |-> "help"]),
         ToolUse("code_search", [pattern |-> "hello"])>>,
       <<ToolUse("edit_file", [path |-> "foo.txt", old_str |-> "", new_str |-> "bar"]),
         ToolUse("bash", [command |-> "false"]),
         ToolUse("subagent", [task |-> "go deeper"])>>,
       <<ToolUse("edit_file", [path |-> "a.txt", old_str |-> "hello", new_str |-> "bye"]),
         ToolUse("list_files", [path |-> "."])>>,
       <<ToolUse("read_file", [path |-> "a.txt"]),
         MalformedToolUse("code_search"),
         ToolUse("list_files", [path |-> "."])>> >>

\* A script repeats one of these sequences of ToolTurns until it converges
Patterns == << <<1>>, <<2, 3>>, <<4, 1>>, <<1, 5>> >>

\* The patterns whose calls all carry arguments that parse
ParsedPatterns == {1, 2, 3}

\* The turns without tool calls a delegate's endpoint can answer with
FinalTurns ==
    << <<TextPart("done")>>,
       <<>>,
       <<TextPart("Summary: "), TextPart(LongText)>> >>

\* final = 0: the response carries no candidate (part-structured protocol only)
NoCandidate == 0

\* The n-th response of the endpoint that follows script: a failure at request
\* failAt, a turn without tool calls from response K on (K = 0: never), a turn
\* of the pattern before
Respond(script, n) ==
    LET pattern == Patterns[script.pattern]
    IN IF script.failAt = n
       THEN [throw |-> TRUE, message |-> "Connection error.", candidate |-> FALSE,
             content |-> <<>>]
       ELSE IF script.K # 0 /\ n >= script.K
       THEN [throw |-> FALSE, message |-> "", candidate |-> script.final # NoCandidate,
             content |-> IF script.final = NoCandidate THEN <<>>
                         ELSE WithIds(FinalTurns[script.final], n)]
       ELSE [throw |-> FALSE, message |-> "", candidate |-> TRUE,
             content |-> WithIds(ToolTurns[pattern[((n - 1) % Len(pattern)) + 1]], n)]

\* The scripts that converge at one of the responses ks with a pattern of ps,
\* and the ones that never converge and fail at one of the requests fas
\* (0: at none)
Scripts(ks, ps, fas, gemini) ==
    {[K |-> k, pattern |-> p, final |-> fin, failAt |-> 0] :
        k \in ks, p \in ps,
        fin \in (DOMAIN FinalTurns \cup (IF gemini THEN {NoCandidate} ELSE {}))}
    \cup {[K |-> 0, pattern |-> p, final |-> 1, failAt |-> fa] : p \in ps, fa \in fas}

\* The scripts of a delegate called directly
AllScripts(gemini) == Scripts(1..MaxK, ParsedPatterns, 0..2, gemini)

\* The scripts of an endpoint of the message-structured protocol whose second
\* response carries a call with arguments that do not parse
MalformedScripts == Scripts({}, DOMAIN Patterns \ ParsedPatterns, {0}, FALSE)

\* The scripts of a delegate Main starts: its endpoint converges within three
\* responses or fails at the second request
FewScripts(gemini) == Scripts(1..3, {2}, {2}, gemini)

\* The scripts of the tasks of a fan-out: the endpoint of a task converges at
\* its first or its third response, or fails at the second request
FanoutScripts == Scripts({1, 3}, {2}, {2}, FALSE)

MaxOutputTokensSet == {1, 9, 30, 2000}

-----------------------------------------------------------------------------
(* The fan-out: Agent.runParallelSubagents *)

ParallelTaskResult(name, success, result) ==
    [name |-> name, success |-> success, result |-> result]

\* An element of the array of Promise.all whose promise has not settled yet
Pending == ParallelTaskResult("", FALSE, "")

NoFanout ==
    [active |-> FALSE, tasks |-> <<>>, maxOutputTokens |-> 0, slots |-> <<>>,
     results |-> <<>>, settled |-> <<>>]

\* task.substring(0, 60) at the head of Subagent.spawn, before its try, throws
\* a TypeError when the task has no text
SpawnThrows(task) == "task" \notin DOMAIN task

TypeErrorMessage == "Cannot read properties of undefined (reading 'substring')"

\* The slot the loop of task i runs in (0: spawn throws before its loop): the
\* calls of tasks.map reach their first request in input order
SlotOf(tasks, i) ==
    IF SpawnThrows(tasks[i]) THEN 0
    ELSE Cardinality({j \in 1..i : ~SpawnThrows(tasks[j])})

\* The task whose loop runs in slot s (0: none)
TaskOf(fo, s) ==
    IF \E i \in DOMAIN fo.slots : fo.slots[i] = s
    THEN CHOOSE i \in DOMAIN fo.slots : fo.slots[i] = s
    ELSE 0

\* A Promise.all that keeps the values in the order the promises settle
PromiseAllResolveInCompletionOrder(values, index, value) ==
    [values EXCEPT ![CHOOSE i \in DOMAIN values :
                        values[i] = Pending /\ \A j \in 1..(i - 1) : values[j] # Pending]
                   = value]

\* Promise.all: the value of a promise goes to the index of the promise
PromiseAllResolve(values, index, value) == [values EXCEPT ![index] = value]

\* A Promise.all that is over as soon as one promise has settled
PromiseAnySettled(fo) == fo.settled # <<>> \/ fo.tasks = <<>>

\* await Promise.all: every promise has settled
PromiseAllSettled(fo) == \A i \in DOMAIN fo.tasks : \E k \in DOMAIN fo.settled : fo.settled[k] = i

\* The closure of tasks.map for task i is over with value
Settle(fo, i, value) ==
    [fo EXCEPT !.results = PromiseAllResolve(@, i, value), !.settled = Append(@, i)]

\* return { name: task.name, success: true, result }
TaskReturned(task, result) == ParallelTaskResult(Field(task, "name", "undefined"), TRUE, result)

\* The catch of the closure of tasks.map
TaskFailed(task, message) ==
    ParallelTaskResult(Field(task, "name", "undefined"), FALSE, "Error: " \o message)

\* The closures whose spawn throws are over before any response arrives, in
\* input order
RECURSIVE SettleThrown(_, _)
SettleThrown(fo, i) ==
    IF i > Len(fo.tasks) THEN fo
    ELSE SettleThrown(IF SpawnThrows(fo.tasks[i])
                      THEN Settle(fo, i, TaskFailed(fo.tasks[i], TypeErrorMessage))
                      ELSE fo,
                      i + 1)

\* tasks.map(async (task) => ...) up to the await of Promise.all
runParallelSubagentsStart(tasks, maxOutputTokens) ==
    SettleThrown([active |-> TRUE, tasks |-> tasks, maxOutputTokens |-> maxOutputTokens,
                  slots |-> [i \in 1..Len(tasks) |-> SlotOf(tasks, i)],
                  results |-> [i \in 1..Len(tasks) |-> Pending],
                  settled |-> <<>>], 1)

\* Subagent.spawn returns in slot s with context c: the closure of its task
\* is over
SpawnReturns(fo, s, c) ==
    IF fo.active /\ c.pc = "done" /\ TaskOf(fo, s) # 0
    THEN Settle(fo, TaskOf(fo, s), TaskReturned(fo.tasks[TaskOf(fo, s)], c.result))
    ELSE fo

\* Array.prototype.join
RECURSIVE join(_, _)
join(parts, separator) ==
    IF Len(parts) = 0 THEN ""
    ELSE IF Len(parts) = 1 THEN parts[1]
    ELSE parts[1] \o separator \o join(Tail(parts), separator)

\* formattedResults.push of "## ${r.name}\n${r.result}" for each r of results
formattedResults(results) ==
    [i \in 1..Len(results) |-> "## " \o results[i].name \o "\n" \o results[i].result]

\* return formattedResults.join("\n\n---\n\n")
runParallelSubagentsReturn(fo) == join(formattedResults(fo.results), "\n\n---\n\n")

-----------------------------------------------------------------------------
(* The delegate step *)

Depth(s) == IF ctx[s].parent = 0 THEN 2 ELSE 3

IsTurn(m) == m.role \in {"assistant", "model"}

\* The index of the first turn of the endpoint among msgs after index i
NextTurn(msgs, i) ==
    CHOOSE j \in (i + 1)..Len(msgs) :
        IsTurn(msgs[j]) /\ \A k \in (i + 1)..(j - 1) : ~IsTurn(msgs[k])

\* The tool calls of turn m
CallsOf(m) ==
    IF "tool_calls" \in DOMAIN m THEN Len(m.tool_calls)
    ELSE Len(SelectSeq(m.content, IsToolUse))

\* msgs without the n oldest turns of the endpoint and the results that answer them
RECURSIVE DropTurns(_, _)
DropTurns(msgs, n) ==
    IF n = 0 THEN msgs
    ELSE LET j == NextTurn(msgs, 0)
         IN DropTurns(SubSeq(msgs, 1, j - 1) \o SubSeq(msgs, NextTurn(msgs, j), Len(msgs)),
                      n - 1)

\* The tool calls of the n oldest turns of the endpoint among msgs
RECURSIVE OldestCalls(_, _)
OldestCalls(msgs, n) ==
    IF n = 0 THEN 0
    ELSE CallsOf(msgs[NextTurn(msgs, 0)]) + OldestCalls(DropTurns(msgs, 1), n - 1)

\* The counters and the conversation of a context are kept exactly up to
\* MaxRequests requests.  A loop that goes on beyond is followed with its
\* counters moved back by two periods of its script and the turns of these
\* periods dropped, so that a loop that never ends is a cycle of the model in
\* which every step changes the state
Forget(c) ==
    LET period == 2 * Len(Patterns[c.script.pattern])
    IN IF c.pc = "awaiting" /\ c.requests > MaxRequests
       THEN [c EXCEPT !.requests = @ - period,
                      !.rounds = @ - period,
                      !.iterations = IF @ = 0 THEN 0 ELSE @ - period,
                      !.totalToolCalls =
                          IF @ = 0 THEN 0 ELSE @ - OldestCalls(c.messages, period),
                      !.messages = DropTurns(@, period)]
       ELSE c

\* What context c does with answer r of its endpoint
Handle(c, r, f) ==
    IF r.throw THEN Handled(OnError(c, r.message), f, <<>>) ELSE OnResponse(c, r, f)

\* A Subagent object that keeps toolCallCount in a field: what one call
\* counts is seen by every call of the object that is running
SpawnShared(cs, s, c) ==
    [t \in Slots |->
        IF t = s THEN c
        ELSE IF cs[t].pc = "awaiting" /\ cs[t].role = c.role
        THEN [cs[t] EXCEPT !.totalToolCalls = c.totalToolCalls]
        ELSE cs[t]]

\* messages, iterations, toolCallCount (and their counterparts in the other
\* delegates) are locals of the call: the loop in slot s leaves c in its own
\* context and nothing anywhere else
SpawnLocals(cs, s, c) == [cs EXCEPT ![s] = c]

\* The endpoint of the delegate in slot s answers (or fails) and the delegate
\* runs to its next request or to its return; the tools of the turn, external
\* processes included (execSync), run within the step
DelegateStep(s) ==
    /\ ctx[s].pc = "awaiting"
    /\ \E r \in {Respond(ctx[s].script, ctx[s].requests)} :
       \E h \in {Handle(ctx[s], r, fs)} :
          /\ fs' = h.fs
          /\ fanout' = SpawnReturns(fanout, s, h.c)
          /\ IF h.spawns = <<>>
             THEN ctx' = SpawnLocals(ctx, s, Forget(h.c))
             ELSE \E t \in Slots \ {s} :
                    /\ ctx[t].pc = "idle"
                    /\ ctx' = [ctx EXCEPT ![s] = Forget(h.c),
                                          ![t] = spawnStart(s, "go deeper", 2000, NoScript)]
    /\ UNCHANGED <<config, mainPc, conversation, mainResp, mainIdx, toolResults, mainRequests,
                   truncation, answer, feedback, edit, loaded>>

-----------------------------------------------------------------------------
(* Delegates called directly *)

\* A caller other than Main starts a delegate in slot 1: oracle.consult,
\* searchAgent.search, librarian.research or subagent.spawn
Invoke ==
    /\ mainPc = "off"
    /\ \A s \in Slots : ctx[s].pc = "idle"
    /\ \E role \in {"oracle", "search", "librarian", "subagent"} :
         \E script \in AllScripts(role = "search" /\ config.searchGemini)
                        \cup (IF role = "oracle" /\ config.oracleOpenAI
                              THEN MalformedScripts ELSE {}) :
           \E mot \in MaxOutputTokensSet :
             /\ role # "subagent" => mot = 2000
             /\ ctx' = [ctx EXCEPT ![1] =
                   CASE role = "oracle" -> consult(config, 0, "why?", "", script)
                     [] role = "search" -> search(config, 0, "where?", script)
                     [] role = "librarian" -> researchStart(0, "how?", "zod", script)
                     [] role = "subagent" -> spawnStart(0, "create foo.txt", mot, script)]
    /\ fs' = InitFs
    /\ UNCHANGED <<config, mainPc, conversation, mainResp, mainIdx, toolResults, mainRequests,
                   fanout, truncation, answer, feedback, edit, loaded>>

Configs == [oracleOpenAI : BOOLEAN, searchGemini : BOOLEAN]

LoopInit ==
    /\ config \in Configs
    /\ fs = InitFs
    /\ mainPc = "off"
    /\ conversation = <<>>
    /\ mainResp = <<>>
    /\ mainIdx = 0
    /\ toolResults = <<>>
    /\ mainRequests = 0
    /\ ctx = [s \in Slots |-> IdleCtx]
    /\ fanout = NoFanout
    /\ truncation = NoCall
    /\ answer = ""
    /\ feedback = NoFeedback
    /\ edit = NoEdit
    /\ loaded = NoLoad

LoopNext ==
    \/ Invoke
    \/ \E s \in Slots : DelegateStep(s)

\* The delegate loops on their own
LoopSpec == LoopInit /\ [][LoopNext]_vars

-----------------------------------------------------------------------------
(* The Main loop: Agent.chat / Agent.chatWithAnthropic *)

\* Agent.executeTool: the core tools run at once; a meta-tool starts a
\* delegate or a fan-out, whose returned string becomes the result
AgentExecuteTool(f, name, input) ==
    CASE name = "read_file" ->
           Executed(IF "path" \in DOMAIN input THEN readFile(f, input.path)
                    ELSE NoPathError("Error reading file: "), f, "none")
      [] name = "list_files" -> Executed(listFiles(f, Field(input, "path", ".")), f, "none")
      [] name = "edit_file" ->
           IF "path" \in DOMAIN input
           THEN LET e == editFile(f, input.path, Field(input, "old_str", "undefined"),
                                  Field(input, "new_str", "undefined"))
                IN Executed(e.result, e.fs, "none")
           ELSE Executed(NoPathError("Error editing file: "), f, "none")
      [] name = "bash" -> Executed(bash(Field(input, "command", "undefined")), f, "none")
      [] name = "code_search" ->
           Executed(codeSearch(f, Field(input, "pattern", "undefined")), f, "none")
      [] name \in {"oracle", "subagent", "search_agent", "librarian", "parallel_subagents"} ->
           Executed("", f, name)
      [] name = "feedback_loop" ->
           Executed(feedback_loop(Field(input, "working_directory", ".")), f, "none")
      [] OTHER -> Executed("Unknown tool: " \o name, f, "none")

\* Agent.displayToolCall throws a TypeError when it takes the length or a
\* substring of an absent field
displayToolCallThrows(name, input) ==
    \/ name = "oracle" /\ "query" \notin DOMAIN input
    \/ name = "subagent" /\ "task" \notin DOMAIN input
    \/ name = "search_agent" /\ "query" \notin DOMAIN input
    \/ name = "parallel_subagents" /\ "tasks" \notin DOMAIN input

\* The delegate Agent.executeTool starts for a meta-tool call
StartDelegate(cfg, name, input, script) ==
    CASE name = "oracle" -> consult(cfg, 0, input.query, Field(input, "context", ""), script)
      [] name = "subagent" ->
           spawnStart(0, input.task, Field(input, "max_output_tokens", 2000), script)
      [] name = "search_agent" -> search(cfg, 0, input.query, script)
      [] name = "librarian" ->
           researchStart(0, Field(input, "query", "undefined"),
                         Field(input, "library", "undefined"), script)

\* The for loop of chatWithAnthropic from block i on, up to the first await that
\* does not return at once: wait = the index of the block whose delegate has
\* been started (0: the loop ran to its end), thrown = displayToolCall threw
RECURSIVE MainBlocks(_, _, _)
MainBlocks(content, i, st) ==
    IF i > Len(content) THEN st
    ELSE LET block == content[i]
             e == AgentExecuteTool(st.fs, block.name, block.input)
         IN IF block.type # "tool_use" THEN MainBlocks(content, i + 1, st)
            ELSE IF displayToolCallThrows(block.name, block.input)
            THEN [st EXCEPT !.thrown = TRUE]
            ELSE IF e.spawn # "none" THEN [st EXCEPT !.wait = i]
            ELSE MainBlocks(content, i + 1,
                    [st EXCEPT !.fs = e.fs,
                               !.toolResults = Append(@, ToolResultBlock(block.id, e.result))])

\* The turns the Main endpoint can answer with
MainTurns ==
    { <<TextPart("All done.")>>,
      <<ToolUse("read_file", [path |-> "a.txt"]), ToolUse("frobnicate", <<>>)>>,
      <<TextPart("Delegating."),
        ToolUse("subagent", [task |-> "create foo.txt", max_output_tokens |-> 30]),
        ToolUse("read_file", [path |-> "foo.txt"]),
        ToolUse("oracle", [query |-> "why?"])>>,
      <<ToolUse("search_agent", [query |-> "where?"]),
        ToolUse("librarian", [query |-> "how?", library |-> "zod"])>>,
      <<ToolUse("subagent", [task |-> "summarise", max_output_tokens |-> 1])>>,
      <<ToolUse("edit_file", [path |-> "a.txt", old_str |-> "hello", new_str |-> "x"]),
        ToolUse("oracle", <<>>)>>,
      <<ToolUse("parallel_subagents",
                [tasks |-> << [name |-> "writer", task |-> "create foo.txt"],
                              [name |-> "broken"],
                              [name |-> "reader", task |-> "summarise"] >>,
                 max_output_tokens_per_task |-> 9])>>,
      <<ToolUse("librarian", [query |-> "how?", library |-> "zod"]),
        ToolUse("subagent", <<>>)>> }

\* String.prototype.trim over the whitespace the inputs of the model hold
RECURSIVE trimStart(_)
trimStart(str) ==
    IF Len(str) > 0 /\ SubSeq(str, 1, 1) = " " THEN trimStart(SubSeq(str, 2, Len(str))) ELSE str

RECURSIVE trimEnd(_)
trimEnd(str) ==
    IF Len(str) > 0 /\ SubSeq(str, Len(str), Len(str)) = " "
    THEN trimEnd(SubSeq(str, 1, Len(str) - 1)) ELSE str

trim(str) == trimEnd(trimStart(str))

\* The lines a user types at the prompt
Inputs == {"", "  ", "fix the bug"}

\* The callback of rl.question without its try/catch: a rejected chat() is an
\* unhandled rejection, which ends the process
askQuestionUncaught(rejected) == IF rejected THEN "exited" ELSE "idle"

\* The callback of rl.question once chat() is over: the rejection, if any, is
\* caught and printed, and askQuestion() prompts again
askQuestionAfterChat(rejected) == "idle"

\* Main goes on from block i of content with the results so far: to the next
\* delegate, to the next request, or out of chat()
MainProceed(conv, content, i, results, f, requests) ==
    LET st == MainBlocks(content, i,
                         [fs |-> f, toolResults |-> results, wait |-> 0, thrown |-> FALSE])
        block == content[st.wait]
    IN /\ fs' = st.fs
       /\ mainResp' = content
       /\ IF st.thrown
          THEN /\ mainPc' = askQuestionAfterChat(TRUE)
               /\ conversation' = conv
               /\ mainIdx' = 0
               /\ toolResults' = <<>>
               /\ mainRequests' = requests
               /\ ctx' = [s \in Slots |-> IdleCtx]
               /\ fanout' = NoFanout
          ELSE IF st.wait # 0
          THEN /\ mainPc' = "executing"
               /\ conversation' = conv
               /\ mainIdx' = st.wait
               /\ toolResults' = st.toolResults
               /\ mainRequests' = requests
               /\ IF block.name = "parallel_subagents"
                  THEN \E fo \in {runParallelSubagentsStart(
                                       block.input.tasks,
                                       Field(block.input, "max_output_tokens_per_task", 1000))} :
                       \E scripts \in [Range(fo.slots) \ {0} -> FanoutScripts] :
                         /\ fanout' = fo
                         /\ ctx' = [s \in Slots |->
                                      IF TaskOf(fo, s) # 0
                                      THEN spawnStart(0, fo.tasks[TaskOf(fo, s)].task,
                                                      fo.maxOutputTokens, scripts[s])
                                      ELSE IdleCtx]
                  ELSE /\ fanout' = NoFanout
                       /\ \E script \in FewScripts(block.name = "search_agent"
                                                    /\ config.searchGemini) :
                            ctx' = [s \in Slots |->
                                      IF s = 1
                                      THEN StartDelegate(config, block.name, block.input, script)
                                      ELSE IdleCtx]
          ELSE IF Len(st.toolResults) = 0
          THEN /\ mainPc' = askQuestionAfterChat(FALSE)
               /\ conversation' = conv
               /\ mainIdx' = 0
               /\ toolResults' = <<>>
               /\ mainRequests' = requests
               /\ ctx' = [s \in Slots |-> IdleCtx]
               /\ fanout' = NoFanout
          ELSE /\ Len(conv) + 1 < MaxConv
               /\ mainPc' = "awaiting"
               /\ conversation' = Append(conv, ResultsMessage(st.toolResults))
               /\ mainIdx' = 0
               /\ toolResults' = <<>>
               /\ mainRequests' = requests + 1
               /\ ctx' = [s \in Slots |-> IdleCtx]
               /\ fanout' = NoFanout

\* askQuestion: a non-blank input starts chat(), which pushes the user message
\* and issues the first request
UserInput ==
    /\ mainPc = "idle"
    /\ Len(conversation) + 1 < MaxConv
    /\ \E input \in Inputs :
         /\ trim(input) # ""
         /\ answer' = input
         /\ conversation' = Append(conversation, UserMessage(input))
    /\ mainPc' = "awaiting"
    /\ mainRequests' = 1
    /\ UNCHANGED <<config, fs, mainResp, mainIdx, toolResults, ctx, fanout, truncation, feedback, edit, loaded>>

\* askQuestion: a blank input starts nothing, askQuestion() prompts again
EmptyInput ==
    /\ mainPc = "idle"
    /\ \E input \in Inputs :
         /\ trim(input) = ""
         /\ answer' = input
    /\ mainPc' = "idle"
    /\ UNCHANGED <<config, fs, conversation, mainResp, mainIdx, toolResults, mainRequests, ctx,
                   fanout, truncation, feedback, edit, loaded>>

\* The Main endpoint answers: the assistant turn is pushed and its blocks run
MainResponse ==
    /\ mainPc = "awaiting"
    /\ \E turn \in MainTurns :
         LET content == WithIds(turn, mainRequests)
         IN MainProceed(Append(conversation, AssistantMessage(content)), content, 1, <<>>,
                        fs, mainRequests)
    /\ UNCHANGED <<config, truncation, answer, feedback, edit, loaded>>

\* The Main endpoint fails: chat() rejects and askQuestion prompts again
MainRequestFails ==
    /\ mainPc = "awaiting"
    /\ mainPc' = askQuestionAfterChat(TRUE)
    /\ UNCHANGED <<config, fs, conversation, mainResp, mainIdx, toolResults, mainRequests, ctx,
                   fanout, truncation, answer, feedback, edit, loaded>>

\* The string the executeTool call Main awaits returns with
Returned(fo, cs) == IF fo.active THEN runParallelSubagentsReturn(fo) ELSE cs[1].result

\* The delegate or the fan-out Main awaits has returned: its string becomes the
\* result of the call and the for loop goes on
MainResume ==
    /\ mainPc = "executing"
    /\ IF fanout.active THEN PromiseAllSettled(fanout) ELSE ctx[1].pc = "done"
    /\ MainProceed(conversation, mainResp, mainIdx + 1,
                   Append(toolResults,
                          ToolResultBlock(mainResp[mainIdx].id, Returned(fanout, ctx))),
                   fs, mainRequests)
    /\ UNCHANGED <<config, truncation, answer, feedback, edit, loaded>>

Init ==
    /\ config \in Configs
    /\ fs = InitFs
    /\ mainPc = "idle"
    /\ conversation = <<>>
    /\ mainResp = <<>>
    /\ mainIdx = 0
    /\ toolResults = <<>>
    /\ mainRequests = 0
    /\ ctx = [s \in Slots |-> IdleCtx]
    /\ fanout = NoFanout
    /\ truncation = NoCall
    /\ answer = ""
    /\ feedback = NoFeedback
    /\ edit = NoEdit
    /\ loaded = NoLoad

Next ==
    \/ UserInput
    \/ EmptyInput
    \/ MainResponse
    \/ MainRequestFails
    \/ MainResume
    \/ \E s \in Slots : DelegateStep(s)

Spec == Init /\ [][Next]_vars

\* The delegate loops with a fair scheduler: a request in flight is answered
LoopLiveSpec == LoopSpec /\ WF_vars(\E s \in Slots : DelegateStep(s))

-----------------------------------------------------------------------------
(* truncateOutput called on its own *)

MaxTextLen == 200
MaxBudget == 40

\* The texts truncateOutput is called with: the first n characters of a prose
\* text, for every n up to MaxTextLen
Texts == {substring(LongText \o " " \o LongText, 0, n) : n \in 0..MaxTextLen}

\* The budgets truncateOutput is called with
Budgets == 0..MaxBudget

TruncateInit ==
    /\ config = [oracleOpenAI |-> FALSE, searchGemini |-> FALSE]
    /\ fs = InitFs
    /\ mainPc = "off"
    /\ conversation = <<>>
    /\ mainResp = <<>>
    /\ mainIdx = 0
    /\ toolResults = <<>>
    /\ mainRequests = 0
    /\ ctx = [s \in Slots |-> IdleCtx]
    /\ fanout = NoFanout
    /\ answer = ""
    /\ feedback = NoFeedback
    /\ edit = NoEdit
    /\ loaded = NoLoad
    /\ \E text \in Texts, budget \in Budgets :
          truncation = [pc |-> "called", text |-> text, maxTokens |-> budget, returned |-> ""]

\* truncateOutput(text, maxTokens) returns
Truncate ==
    /\ truncation.pc = "called"
    /\ truncation' = [truncation EXCEPT
                        !.pc = "returned",
                        !.returned = truncateOutput(truncation.text, truncation.maxTokens)]
    /\ UNCHANGED <<config, fs, mainPc, conversation, mainResp, mainIdx, toolResults,
                   mainRequests, ctx, fanout, answer, feedback, edit, loaded>>

\* this.truncateOutput(text, maxTokens) of the single-file agent returns
SubagentTruncate ==
    /\ truncation.pc = "called"
    /\ truncation' = [truncation EXCEPT
                        !.pc = "subagent_returned",
                        !.returned = Subagent_truncateOutput(truncation.text,
                                                             truncation.maxTokens)]
    /\ UNCHANGED <<config, fs, mainPc, conversation, mainResp, mainIdx, toolResults,
                   mainRequests, ctx, fanout, answer, feedback, edit, loaded>>

\* truncateOutput is called again on the value it returned, with the same budget
TruncateAgain ==
    /\ truncation.pc = "returned"
    /\ truncation' = [pc |-> "returned_again", text |-> truncation.text,
                      maxTokens |-> truncation.maxTokens, returned |-> truncation.returned,
                      again |-> truncateOutput(truncation.returned, truncation.maxTokens)]
    /\ UNCHANGED <<config, fs, mainPc, conversation, mainResp, mainIdx, toolResults,
                   mainRequests, ctx, fanout, answer, feedback, edit, loaded>>

TruncateNext == Truncate \/ SubagentTruncate \/ TruncateAgain

\* The calls of truncateOutput on the texts of Texts with the budgets of Budgets
TruncateSpec == TruncateInit /\ [][TruncateNext]_vars

-----------------------------------------------------------------------------
(* runFeedbackLoops as a function of the working directory *)

RECURSIVE repeat(_, _)
repeat(str, count) == IF count = 0 THEN "" ELSE str \o repeat(str, count - 1)

\* The output of a run that reports thirty findings, 2220 characters
LongOutput ==
    repeat("a.ts(1,7): error TS2322: Type 'string' is not assignable to type 'number'.\n", 30)

\* What npx tsc --noEmit can do: no errors (with and without output), type
\* errors, TypeScript not installed, no project to check, npx not runnable
TscRuns ==
    { Run("pass", TRUE, "", ""),
      Run("pass", TRUE, "Finished.", ""),
      Run("fail", FALSE, "a.ts(1,7): error TS2322: Type 'string' is not assignable to type 'number'.",
          "Command failed: npx tsc --noEmit 2>&1"),
      Run("fail", FALSE, LongOutput, "Command failed: npx tsc --noEmit 2>&1"),
      Run("absent", FALSE, "This is not the tsc command you are looking for",
          "Command failed: npx tsc --noEmit 2>&1"),
      Run("absent", FALSE, "error TS18003: No inputs were found in config file 'tsconfig.json'.",
          "Command failed: npx tsc --noEmit 2>&1"),
      Run("absent", FALSE, "", "spawnSync /bin/sh ENOENT") }

\* What the selected test command can do: the tests pass, a test fails (the
\* second one in a test named after what it tests), there are no tests (each
\* runner says so in its own words)
TestRuns(cmd) ==
    { Run("pass", TRUE, "Tests  2 passed (2)", ""),
      Run("fail", FALSE, "Tests  1 failed | 1 passed (2)", "Command failed: " \o cmd),
      Run("fail", FALSE, "FAIL  cart.test.ts > shows no test data\nTests  1 failed (1)",
          "Command failed: " \o cmd),
      Run("absent", FALSE,
          CASE cmd = "npx vitest run 2>&1" -> "No test files found, exiting with code 1"
            [] cmd = "npx jest 2>&1" -> "No tests found, exiting with code 1"
            [] OTHER -> "Error: no test specified",
          "Command failed: " \o cmd) }

\* What npx eslint . can do: no findings, findings, no configuration (in the
\* words of three ESLint generations), ESLint not installed
LintRuns ==
    { Run("pass", TRUE, "", ""),
      Run("fail", FALSE, "1 problem (1 error, 0 warnings)", "Command failed: npx eslint ."),
      Run("fail", FALSE, LongOutput, "Command failed: npx eslint ."),
      Run("absent", FALSE, "No ESLint configuration found in /repo.", "Command failed: npx eslint ."),
      Run("absent", FALSE, "ESLint couldn't find a configuration file.", "Command failed: npx eslint ."),
      Run("absent", FALSE, "sh: 1: eslint: not found", "Command failed: npx eslint .") }

\* The working directories: what each of the three commands does there
Envs ==
    UNION { { [tsc |-> t, vitest |-> v, jest |-> j, test |-> r, eslint |-> l] :
                t \in TscRuns, r \in TestRuns(testCmd(v, j)), l \in LintRuns } :
            v \in BOOLEAN, j \in BOOLEAN }

FeedbackInit ==
    /\ config = [oracleOpenAI |-> FALSE, searchGemini |-> FALSE]
    /\ fs = InitFs
    /\ mainPc = "off"
    /\ conversation = <<>>
    /\ mainResp = <<>>
    /\ mainIdx = 0
    /\ toolResults = <<>>
    /\ mainRequests = 0
    /\ ctx = [s \in Slots |-> IdleCtx]
    /\ fanout = NoFanout
    /\ truncation = NoCall
    /\ answer = ""
    /\ edit = NoEdit
    /\ loaded = NoLoad
    /\ \E env \in Envs : feedback = [pc |-> "called", env |-> env]

\* runFeedbackLoops(workingDir) returns
RunFeedbackLoops ==
    /\ feedback.pc = "called"
    /\ feedback' = [pc |-> "returned", env |-> feedback.env,
                    results |-> runFeedbackLoops(feedback.env)]
    /\ UNCHANGED <<config, fs, mainPc, conversation, mainResp, mainIdx, toolResults,
                   mainRequests, ctx, fanout, truncation, answer, edit, loaded>>

\* Agent.executeTool, case feedback_loop: this.runFeedbackLoop(workingDir,
\* input.fix_and_retry || false) returns
AgentFeedbackLoop ==
    /\ feedback.pc = "called"
    /\ \E fixAndRetry \in BOOLEAN :
         feedback' = [pc |-> "agent_returned", env |-> feedback.env,
                      fixAndRetry |-> fixAndRetry,
                      call |-> runFeedbackLoop(feedback.env, fixAndRetry)]
    /\ UNCHANGED <<config, fs, mainPc, conversation, mainResp, mainIdx, toolResults,
                   mainRequests, ctx, fanout, truncation, answer, edit, loaded>>

\* Subagent.executeTool, case feedback_loop, returns
SubagentFeedbackLoop ==
    /\ feedback.pc = "called"
    /\ feedback' = [pc |-> "subagent_returned", env |-> feedback.env,
                    call |-> subagentFeedbackLoop(feedback.env)]
    /\ UNCHANGED <<config, fs, mainPc, conversation, mainResp, mainIdx, toolResults,
                   mainRequests, ctx, fanout, truncation, answer, edit, loaded>>

FeedbackNext == RunFeedbackLoops \/ AgentFeedbackLoop \/ SubagentFeedbackLoop

\* The calls of runFeedbackLoops in the working directories of Envs
FeedbackSpec == FeedbackInit /\ [][FeedbackNext]_vars

-----------------------------------------------------------------------------
(* editFile called on its own *)

\* What a file of the working directory holds when editFile is called
Contents == {"hello world hello", "total = $5"}

\* The working directories editFile is called in
Dirs == [Paths -> {NoFile} \cup {File(c) : c \in Contents}]

\* The paths editFile is called with; the last one cannot be opened
EditPaths == Paths \cup {"/etc/hosts"}

OldStrs == {"", "hello", "world", "$5", "absent"}

NewStrs == {"", "there", "$&$&", "US$$", "[$" \o GraveAccent \o "]", "$'", "$1"}

EditInit ==
    /\ config = [oracleOpenAI |-> FALSE, searchGemini |-> FALSE]
    /\ fs \in Dirs
    /\ mainPc = "off"
    /\ conversation = <<>>
    /\ mainResp = <<>>
    /\ mainIdx = 0
    /\ toolResults = <<>>
    /\ mainRequests = 0
    /\ ctx = [s \in Slots |-> IdleCtx]
    /\ fanout = NoFanout
    /\ truncation = NoCall
    /\ answer = ""
    /\ feedback = NoFeedback
    /\ loaded = NoLoad
    /\ \E filePath \in EditPaths, oldStr \in OldStrs, newStr \in NewStrs :
          edit = [pc |-> "called", path |-> filePath, oldStr |-> oldStr, newStr |-> newStr]

\* editFile(filePath, oldStr, newStr) returns
EditFile ==
    /\ edit.pc = "called"
    /\ \E r \in {editFile(fs, edit.path, edit.oldStr, edit.newStr)} :
         /\ fs' = r.fs
         /\ edit' = [pc |-> "returned", path |-> edit.path, oldStr |-> edit.oldStr,
                     newStr |-> edit.newStr, before |-> fs, result |-> r.result]
    /\ UNCHANGED <<config, mainPc, conversation, mainResp, mainIdx, toolResults,
                   mainRequests, ctx, fanout, truncation, answer, feedback, loaded>>

EditNext == EditFile

\* The calls of editFile in the working directories of Dirs
EditSpec == EditInit /\ [][EditNext]_vars

-----------------------------------------------------------------------------
(* loadConfig (cli.ts) *)

DEFAULT_CONFIG ==
    [version |-> "1.0",
     models |-> [main |-> [model |-> "claude-sonnet-4-20250514", provider |-> "anthropic"],
                 oracle |-> [model |-> "o3-mini", provider |-> "openai"],
                 search |-> [model |-> "gemini-2.0-flash", provider |-> "google"],
                 librarian |-> [model |-> "claude-sonnet-4-20250514", provider |-> "anthropic"]],
     feedbackLoops |-> [typescript |-> TRUE, tests |-> TRUE, lint |-> TRUE, maxRetries |-> 3],
     git |-> [autoCommit |-> TRUE, autoPush |-> FALSE, commitMessageStyle |-> "conventional"],
     security |-> [allowedPaths |-> <<"./">>, confirmDestructive |-> TRUE,
                   blockedCommands |-> <<"rm -rf /", "sudo">>]]

\* The object {}
EmptyObject == <<>>

\* obj.key spread into an object literal: the properties of obj.key, none when
\* obj has no such key (spreading undefined adds nothing)
SpreadOf(obj, key) == IF key \in DOMAIN obj THEN obj[key] ELSE EmptyObject

\* { ...a, ...b }: the own properties of a, then those of b over them
Spread(a, b) == [k \in DOMAIN a \cup DOMAIN b |-> IF k \in DOMAIN b THEN b[k] ELSE a[k]]

\* The object literal loadConfig returns for a parsed user file
mergeConfig(userConfig) ==
    LET top == Spread(DEFAULT_CONFIG, userConfig)
    IN [top EXCEPT
          !.models = Spread(DEFAULT_CONFIG.models, SpreadOf(userConfig, "models")),
          !.feedbackLoops = Spread(DEFAULT_CONFIG.feedbackLoops,
                                   SpreadOf(userConfig, "feedbackLoops")),
          !.git = Spread(DEFAULT_CONFIG.git, SpreadOf(userConfig, "git")),
          !.security = Spread(DEFAULT_CONFIG.security, SpreadOf(userConfig, "security"))]

\* The file at configPath: missing, not JSON, or the JSON text of an object
NoConfigFile == [exists |-> FALSE, valid |-> FALSE, userConfig |-> EmptyObject]

InvalidConfigFile == [exists |-> TRUE, valid |-> FALSE, userConfig |-> EmptyObject]

ConfigFile(userConfig) == [exists |-> TRUE, valid |-> TRUE, userConfig |-> userConfig]

loadConfig(file) ==
    IF ~file.exists THEN DEFAULT_CONFIG
    ELSE IF ~file.valid THEN DEFAULT_CONFIG
    ELSE mergeConfig(file.userConfig)

\* The objects with some of the given properties
Partial(obj) == { [k \in ks |-> obj[k]] : ks \in SUBSET DOMAIN obj }

\* The user files of the model: each section is absent or holds some of its
\* fields, the models section holds whole or partial entries
UserModels ==
    { [main |-> m] : m \in Partial([model |-> "gpt-5.2-codex", provider |-> "openai"]) }
    \cup { [oracle |-> [provider |-> "anthropic"]], EmptyObject }

UserFeedbackLoops == Partial([lint |-> FALSE, maxRetries |-> 5])

UserGit == Partial([autoPush |-> TRUE])

UserSecurity == Partial([allowedPaths |-> <<"src/">>])

UserConfigs ==
    UNION { Partial([version |-> "2.0", models |-> m, feedbackLoops |-> f,
                     git |-> g, security |-> x]) :
            m \in UserModels, f \in UserFeedbackLoops, g \in UserGit, x \in UserSecurity }

ConfigFiles == {NoConfigFile, InvalidConfigFile} \cup {ConfigFile(u) : u \in UserConfigs}

LoadInit ==
    /\ config = [oracleOpenAI |-> FALSE, searchGemini |-> FALSE]
    /\ fs = InitFs
    /\ mainPc = "off"
    /\ conversation = <<>>
    /\ mainResp = <<>>
    /\ mainIdx = 0
    /\ toolResults = <<>>
    /\ mainRequests = 0
    /\ ctx = [s \in Slots |-> IdleCtx]
    /\ fanout = NoFanout
    /\ truncation = NoCall
    /\ answer = ""
    /\ feedback = NoFeedback
    /\ edit = NoEdit
    /\ \E file \in ConfigFiles : loaded = [pc |-> "called", file |-> file]

\* loadConfig(configPath) returns
LoadConfig ==
    /\ loaded.pc = "called"
    /\ loaded' = [pc |-> "returned", file |-> loaded.file, config |-> loadConfig(loaded.file)]
    /\ UNCHANGED <<config, fs, mainPc, conversation, mainResp, mainIdx, toolResults,
                   mainRequests, ctx, fanout, truncation, answer, feedback, edit>>

LoadNext == LoadConfig

\* The calls of loadConfig on the user files of ConfigFiles
LoadSpec == LoadInit /\ [][LoadNext]_vars

-----------------------------------------------------------------------------
(* Properties *)

CappedRoles == {"search", "librarian", "subagent"}

Cap(role) ==
    CASE role = "search" -> SearchCap
      [] role = "librarian" -> LibrarianCap
      [] role = "subagent" -> SubagentCap

SentinelText(role) ==
    CASE role = "search" -> "Search reached maximum iterations"
      [] role = "librarian" -> "Librarian reached maximum iterations"
      [] role = "subagent" -> "Subagent reached maximum iterations"

\* The endpoint of c answers every request, with a tool call in every response
AlwaysCalls(c) == c.script.K = 0 /\ c.script.failAt = 0

\* The endpoint of c answers every request, and response K is its first without tool calls
ConvergesAt(c, k) == c.script.K = k /\ c.script.failAt = 0

C2_CapThenSentinel ==
    \A s \in Slots :
        (ctx[s].pc = "done" /\ ctx[s].role \in CappedRoles /\ AlwaysCalls(ctx[s]))
        => /\ ctx[s].iterations = Cap(ctx[s].role)
           /\ ctx[s].rounds = Cap(ctx[s].role)
           /\ includes(ctx[s].result, SentinelText(ctx[s].role))

\* C3: one Search, Librarian or Subagent call never issues more model requests
\* than the cap of its role
C3_RequestsWithinCap ==
    \A s \in Slots :
        ctx[s].role \in CappedRoles => ctx[s].requests <= Cap(ctx[s].role)

\* The last turn of the endpoint that c holds
LastTurn(c) ==
    LET turns == SelectSeq(c.messages, LAMBDA m : m.role \in {"assistant", "model"})
    IN turns[Len(turns)]

NoToolCalls(m) ==
    IF "tool_calls" \in DOMAIN m THEN Len(m.tool_calls) = 0
    ELSE Len(SelectSeq(m.content, IsToolUse)) = 0

\* C4: a loop whose endpoint does not fail leaves in one of two ways only: with
\* its final text, after a turn without tool calls, or with the exhausted
\* sentinel, when its iteration count equals the cap of its role
C4_OnlyTwoExits ==
    \A s \in Slots :
        (ctx[s].pc = "done" /\ ctx[s].script.failAt = 0)
        => \/ /\ ctx[s].outcome = "converged"
              /\ NoToolCalls(LastTurn(ctx[s]))
           \/ /\ ctx[s].outcome = "exhausted"
              /\ ctx[s].role \in CappedRoles
              /\ ctx[s].iterations = Cap(ctx[s].role)

\* The tool calls in the first n responses of a script
RECURSIVE CallsIn(_, _)
CallsIn(script, n) ==
    IF n = 0 THEN 0
    ELSE Len(SelectSeq(Respond(script, n).content, IsToolUse)) + CallsIn(script, n - 1)

\* C5: when response K is the first without tool calls (1 <= K <= cap), the
\* loop returns on it with its iteration counter at K, after K requests and
\* the tool calls of the K - 1 turns before, and nothing further
C5_ConvergesAtK ==
    \A s \in Slots : \A k \in 1..MaxK :
        ( /\ ctx[s].pc = "done"
          /\ ConvergesAt(ctx[s], k)
          /\ ctx[s].role \in CappedRoles => k <= Cap(ctx[s].role) )
        => /\ ctx[s].requests = k
           /\ ctx[s].rounds = k - 1
           /\ ctx[s].role \in CappedRoles
                => /\ ctx[s].iterations = k
                   /\ ctx[s].totalToolCalls = CallsIn(ctx[s].script, k - 1)

\* A Subagent has converged on the very response that brought it to its cap
C5_Witness ==
    \E s \in Slots :
        /\ ctx[s].pc = "done" /\ ctx[s].role = "subagent"
        /\ ConvergesAt(ctx[s], SubagentCap)
        /\ ctx[s].outcome = "converged"

IsResults(m) ==
    /\ m.role = "user"
    /\ Len(m.content) > 0
    /\ m.content[1].type \in {"tool_result", "functionResponse"}

\* Block-structured protocol: a batch of results follows the assistant turn it
\* answers, one result per call of the turn, in the order of the calls, each
\* carrying the id of its call
BlockOrdered(msgs) ==
    \A j \in DOMAIN msgs :
        IsResults(msgs[j])
        => /\ j > 1
           /\ msgs[j - 1].role = "assistant"
           /\ LET calls == SelectSeq(msgs[j - 1].content, IsToolUse)
              IN /\ Len(msgs[j].content) = Len(calls)
                 /\ \A i \in DOMAIN calls : msgs[j].content[i].tool_use_id = calls[i].id

\* Part-structured protocol: the i-th function response answers the i-th call
PartOrdered(msgs) ==
    \A j \in DOMAIN msgs :
        IsResults(msgs[j])
        => /\ j > 1
           /\ msgs[j - 1].role = "model"
           /\ LET calls == SelectSeq(msgs[j - 1].content, IsToolUse)
              IN /\ Len(msgs[j].content) = Len(calls)
                 /\ \A i \in DOMAIN calls : msgs[j].content[i].name = calls[i].name

\* Message-structured protocol: the tool messages that follow an assistant
\* message answer its calls one by one, in order, each carrying the id of its call
MessageOrdered(msgs) ==
    \A j \in DOMAIN msgs :
        "tool_calls" \in DOMAIN msgs[j]
        => \A i \in DOMAIN msgs[j].tool_calls :
              /\ j + i <= Len(msgs)
              /\ msgs[j + i].role = "tool"
              /\ msgs[j + i].tool_call_id = msgs[j].tool_calls[i].id

\* C6: the results appended for one turn are one per tool call, in the order
\* of the calls, the i-th result answering the i-th call (by id, or by
\* position in the part-structured protocol), however long each execution took
C6_ResultsInCallOrder ==
    /\ BlockOrdered(conversation)
    /\ \A s \in Slots :
         ctx[s].outcome # "error"
         => CASE ctx[s].path = "anthropic" -> BlockOrdered(ctx[s].messages)
              [] ctx[s].path = "gemini" -> PartOrdered(ctx[s].messages)
              [] ctx[s].path = "openai" -> MessageOrdered(ctx[s].messages)
              [] OTHER -> TRUE

\* Main has appended a batch of three results, one of them a delegate's that
\* took several steps, and a delegate holds a batch of three
C6_Witness ==
    /\ \E j \in DOMAIN conversation :
         IsResults(conversation[j]) /\ Len(conversation[j].content) = 3
    /\ \E s \in Slots : \E j \in DOMAIN ctx[s].messages :
         /\ ctx[s].path = "anthropic"
         /\ IsResults(ctx[s].messages[j]) /\ Len(ctx[s].messages[j].content) = 3

\* The tool names the executor of a role knows: the ones advertised to the role
KnownTools(role) ==
    IF role = "subagent" THEN {subagentTools[i].name : i \in DOMAIN subagentTools}
    ELSE {readOnlyTools[i].name : i \in DOMAIN readOnlyTools}

\* A call whose execution fails in every working directory the model reaches
FailingCall(role, call) ==
    \/ call.name \notin KnownTools(role)
    \/ call.name = "read_file" /\ call.input.path = "nope.txt"
    \/ call.name = "bash" /\ call.input.command = "false"

\* The string the executor returns for a failing call
FailureString(role, call, result) ==
    IF call.name \notin KnownTools(role) THEN result = "Unknown tool: " \o call.name
    ELSE IF call.name = "read_file" THEN substring(result, 0, 19) = "Error reading file:"
    ELSE result = "Error: Command failed: false"

HasTurn(c) == \E j \in DOMAIN c.messages : c.messages[j].role \in {"assistant", "model"}

LastTurnIndex(c) ==
    CHOOSE j \in DOMAIN c.messages :
        /\ c.messages[j].role \in {"assistant", "model"}
        /\ \A k \in DOMAIN c.messages : k > j => c.messages[k].role \notin {"assistant", "model"}

\* The tool calls of the last turn c holds
LastCalls(c) ==
    LET m == c.messages[LastTurnIndex(c)]
    IN IF c.path = "openai" THEN m.tool_calls ELSE SelectSeq(m.content, IsToolUse)

\* The result strings c holds after its last turn
LastResults(c) ==
    LET j == LastTurnIndex(c)
        msgs == c.messages
    IN IF c.path = "openai" THEN [i \in 1..(Len(msgs) - j) |-> StringOf(msgs[j + i].content)]
       ELSE IF j = Len(msgs) THEN <<>>
       ELSE [i \in DOMAIN msgs[j + 1].content |->
                IF c.path = "gemini" THEN msgs[j + 1].content[i].result
                ELSE msgs[j + 1].content[i].content]

HasFailingCall(c) ==
    /\ c.pc # "idle"
    /\ c.script.failAt = 0
    /\ HasTurn(c)
    /\ \E i \in DOMAIN LastCalls(c) : FailingCall(c.role, LastCalls(c)[i])

\* The failure of an executor is an ordinary result: the string is the result of its call
FailureIsResult(c) ==
    /\ Len(LastResults(c)) = Len(LastCalls(c))
    /\ \A i \in DOMAIN LastCalls(c) :
         FailingCall(c.role, LastCalls(c)[i])
         => FailureString(c.role, LastCalls(c)[i], LastResults(c)[i])

Advertised(c) ==
    IF c.path = "openai" THEN {c.tools[i].function.name : i \in DOMAIN c.tools}
    ELSE {c.tools[i].name : i \in DOMAIN c.tools}

C9_NoNestedDelegate ==
    \A s \in Slots :
        ctx[s].pc # "idle"
        => /\ ctx[s].parent = 0
           /\ (HasTurn(ctx[s]) /\ ctx[s].outcome # "error"
               /\ Len(LastResults(ctx[s])) = Len(LastCalls(ctx[s])))
              => \A i \in DOMAIN LastCalls(ctx[s]) :
                    LastCalls(ctx[s])[i].name \in MetaTools
                    => LastResults(ctx[s])[i] = "Unknown tool: " \o LastCalls(ctx[s])[i].name

\* Main awaits a Subagent whose model has asked for the subagent tool
C9_Witness ==
    /\ mainPc = "executing"
    /\ \E s \in Slots :
         /\ ctx[s].role = "subagent" /\ HasTurn(ctx[s])
         /\ \E i \in DOMAIN LastResults(ctx[s]) :
              LastResults(ctx[s])[i] = "Unknown tool: subagent"

\* C10: every request of a context advertises the tools of its first request
C10_ToolsNeverGrow ==
    \A s \in Slots :
        ctx[s].requests > 0
        => /\ ctx[s].tools = ctx[s].firstTools
           /\ ctx[s].role # "subagent" => Advertised(ctx[s]) \cap MetaTools = {}

\* A Subagent's model has asked for meta-tools in earlier turns and the
\* Subagent has issued its last request
C10_Witness ==
    \E s \in Slots :
        /\ ctx[s].role = "subagent" /\ ctx[s].requests = SubagentCap
        /\ ctx[s].script.pattern = 2

\* The step is the return of the executeTool call that Main awaits
DelegateCallReturns == mainPc = "executing" /\ (mainPc' # "executing" \/ mainIdx' # mainIdx)

\* The results of the Main turn in the next state: the array in progress, or
\* the batch just pushed to the conversation
TurnResultsNext ==
    IF mainPc' = "executing" THEN toolResults'
    ELSE IF mainPc' = "awaiting" /\ Len(conversation') > Len(conversation)
    THEN conversation'[Len(conversation')].content
    ELSE <<>>

\* Context c holds no turn of an endpoint and no result of a call: it is idle
\* or has just been started
NothingRetained(c) ==
    /\ c.requests <= 1 /\ c.rounds = 0 /\ c.result = ""
    /\ \A i \in DOMAIN c.messages : c.messages[i].role \in {"system", "user"}

\* C11: when a delegate call of Main (oracle, subagent, search_agent,
\* librarian, parallel_subagents) returns, the results of the turn have grown
\* by exactly one tool result for the call, holding the returned string; the
\* Main conversation has gained nothing but the batch of results of the turn,
\* and no context keeps a turn, a call or a result of the delegate
C11_OneResultPerDelegate ==
    [][DelegateCallReturns =>
        LET call == mainResp[mainIdx]
            results == TurnResultsNext
        IN /\ Len(results) > Len(toolResults)
           /\ SubSeq(results, 1, Len(toolResults)) = toolResults
           /\ results[Len(toolResults) + 1] = ToolResultBlock(call.id, Returned(fanout, ctx))
           /\ Cardinality({i \in DOMAIN results : results[i].tool_use_id = call.id}) = 1
           /\ \/ conversation' = conversation
              \/ conversation' = Append(conversation, ResultsMessage(results))
           /\ \A s \in Slots : NothingRetained(ctx'[s])
    ]_vars

\* The text a Subagent loop that has ended without an error ends with: the
\* sentinel after the cap, else the last text block of the final turn, or
\* "Task completed" when the turn has none
LoopText(c) ==
    LET texts == SelectSeq(LastTurn(c).content, LAMBDA p : p.type = "text")
    IN IF c.outcome = "exhausted" THEN "Subagent reached maximum iterations."
       ELSE IF texts = <<>> THEN "Task completed"
       ELSE IF texts[Len(texts)].text = "" THEN "Task completed"
       ELSE texts[Len(texts)].text

\* The length of the marker truncateOutput inserts into text under budget T
\* (0: it inserts none)
MarkerOverhead(text, T) ==
    IF Len(text) <= 4 * T THEN 0
    ELSE Len("\n\n... [TRUNCATED - " \o ToString(Len(text) - 4 * T) \o " chars removed] ...\n\n")

\* C12: spawn starts from a conversation that holds only the task, as one user
\* turn, and whenever its loop ends by convergence or by exhaustion it returns
\* the text of the loop passed through truncateOutput with the task's
\* maxOutputTokens: at most 4 * maxOutputTokens characters plus the marker
C12_SpawnReturnsBudgetedText ==
    \A s \in Slots :
        ctx[s].role = "subagent" =>
            /\ Len(ctx[s].messages) >= 1
            /\ ctx[s].messages[1].role = "user"
            /\ Len(ctx[s].messages[1].content) = 1
            /\ ctx[s].messages[1].content[1].type = "text"
            /\ (ctx[s].requests = 1 /\ ctx[s].pc = "awaiting") => Len(ctx[s].messages) = 1
            /\ (ctx[s].pc = "done" /\ ctx[s].outcome \in {"converged", "exhausted"}) =>
                 /\ ctx[s].result = truncateOutput(LoopText(ctx[s]), ctx[s].maxOutputTokens)
                 /\ Len(ctx[s].result)
                      <= 4 * ctx[s].maxOutputTokens
                         + MarkerOverhead(LoopText(ctx[s]), ctx[s].maxOutputTokens)

\* A Subagent has converged with a text longer than its budget of 30 tokens
C12_Witness ==
    \E s \in Slots :
        /\ ctx[s].role = "subagent" /\ ctx[s].pc = "done" /\ ctx[s].outcome = "converged"
        /\ ctx[s].maxOutputTokens = 30
        /\ Len(LoopText(ctx[s])) > 4 * ctx[s].maxOutputTokens
        /\ Len(ctx[s].result) < Len(LoopText(ctx[s]))

\* CONFIG.maxTokens, the only token limit Oracle, SearchAgent and Librarian have
CONFIG_maxTokens == 8096

\* The text a Subagent call that is over ended with, before any truncation
SpawnText(c) ==
    IF c.outcome = "error"
    THEN "Subagent error: " \o Respond(c.script, c.requests).message
    ELSE LoopText(c)

\* Task i of the fan-out is over
Settled(fo, i) == \E k \in DOMAIN fo.settled : fo.settled[k] = i

\* C13: every string that a delegate call hands back to the Main loop (oracle,
\* search_agent, librarian, subagent, each section of parallel_subagents;
\* error and exhausted returns included) has gone through truncateOutput and
\* stays within 4 * maxTokens characters, plus the marker when truncated
C13_EveryReturnBudgeted ==
    /\ \A s \in Slots :
         ctx[s].pc = "done" =>
            IF ctx[s].role = "subagent"
            THEN ctx[s].result = truncateOutput(SpawnText(ctx[s]), ctx[s].maxOutputTokens)
            ELSE Len(ctx[s].result) <= 4 * CONFIG_maxTokens
    /\ \A i \in DOMAIN fanout.results :
         Settled(fanout, i) =>
            fanout.results[i].result
              = truncateOutput(IF fanout.slots[i] = 0 THEN "Error: " \o TypeErrorMessage
                               ELSE SpawnText(ctx[fanout.slots[i]]),
                               fanout.maxOutputTokens)

\* What task i of the fan-out ended with: the string its Subagent call
\* returned, or the error text when the call threw
OwnResult(fo, cs, i) ==
    IF fo.slots[i] = 0 THEN "Error: " \o TypeErrorMessage ELSE cs[fo.slots[i]].result

\* The section of task i
Section(fo, cs, i) == "## " \o fo.tasks[i].name \o "\n" \o OwnResult(fo, cs, i)

\* C14: whatever the order in which the tasks of a fan-out complete, the
\* aggregated output consists of exactly one labeled section per input task,
\* in the order of the input
C14_SectionsInInputOrder ==
    (fanout.active /\ PromiseAllSettled(fanout)) =>
        /\ Len(fanout.results) = Len(fanout.tasks)
        /\ Len(fanout.settled) = Len(fanout.tasks)
        /\ runParallelSubagentsReturn(fanout)
             = join([i \in 1..Len(fanout.tasks) |-> Section(fanout, ctx, i)], "\n\n---\n\n")

\* A fan-out of three tasks is over, and the last task has completed before
\* the first one
C14_Witness ==
    /\ fanout.active /\ PromiseAllSettled(fanout)
    /\ fanout.settled = <<2, 3, 1>>
    /\ includes(runParallelSubagentsReturn(fanout), "## writer")

\* An error was thrown while the Subagent of task i ran: in the head of spawn,
\* or by its endpoint
TaskThrew(fo, cs, i) == fo.slots[i] = 0 \/ cs[fo.slots[i]].outcome = "error"

\* C15: in a fan-out, a task whose Subagent fails is recorded as
\* {name, success: false, result: errorText}, and every task that did not
\* fail is recorded with success: true
C15_FailedTasksMarked ==
    \A i \in DOMAIN fanout.tasks :
        Settled(fanout, i) =>
            /\ fanout.results[i].name = fanout.tasks[i].name
            /\ fanout.results[i].success = ~TaskThrew(fanout, ctx, i)
            /\ fanout.results[i].result = OwnResult(fanout, ctx, i)

\* The step is one in which the Subagent in slot s fails
TaskFails(s) ==
    fanout.active /\ ctx[s].pc = "awaiting" /\ ctx'[s].pc = "done" /\ ctx'[s].outcome = "error"

\* C16: the failure of a task of a fan-out neither cancels a sibling nor
\* changes its result (a sibling goes on until its own endpoint converges or
\* fails, and is recorded with what its own call returned), and the fan-out
\* returns only when every task has settled
C16_FailureLeavesSiblings ==
    [][/\ (DelegateCallReturns /\ fanout.active) =>
             \A i \in DOMAIN fanout.tasks :
                 /\ Settled(fanout, i)
                 /\ fanout.slots[i] # 0 => ctx[fanout.slots[i]].pc = "done"
       /\ \A s \in Slots :
             TaskFails(s) =>
                 \A t \in Slots \ {s} :
                     /\ ctx'[t] = ctx[t]
                     /\ TaskOf(fanout, t) # 0 =>
                            fanout'.results[TaskOf(fanout, t)] = fanout.results[TaskOf(fanout, t)]
       /\ \A i \in DOMAIN fanout.tasks :
             (fanout.active /\ fanout.slots[i] # 0) =>
                 \E c \in {ctx[fanout.slots[i]]} :
                     IF Settled(fanout, i)
                     THEN /\ c.pc = "done"
                          /\ fanout.results[i] = TaskReturned(fanout.tasks[i], c.result)
                          /\ c.script.failAt = 0 =>
                                 c.outcome = "converged" /\ c.requests = c.script.K
                     ELSE c.pc = "awaiting"
    ]_vars

\* The first task of a fan-out has failed at its endpoint, and the last one
\* has gone on to the third response of its endpoint and converged
C16_Witness ==
    /\ fanout.active /\ PromiseAllSettled(fanout)
    /\ fanout.settled = <<2, 1, 3>>
    /\ ctx[1].outcome = "error"
    /\ ctx[2].outcome = "converged" /\ ctx[2].requests = 3

\* C17: the tasks of a fan-out that run at the same time share no
\* conversation and no counter: in every step taken while the fan-out runs at
\* most one context changes, it changes by a step of its own loop, and what
\* it becomes follows from its own conversation and counters, the answer of
\* its own endpoint and the working directory
C17_TaskStateIsPrivate ==
    [][(fanout.active /\ fanout'.active) =>
          /\ Cardinality({t \in Slots : ctx'[t] # ctx[t]}) <= 1
          /\ \A t \in Slots :
                ctx'[t] # ctx[t] =>
                    /\ ctx[t].pc = "awaiting"
                    /\ ctx'[t] = Forget(Handle(ctx[t],
                                               Respond(ctx[t].script, ctx[t].requests), fs).c)
    ]_vars

\* Two tasks of a fan-out are running, the first after a round of tool calls
\* and the second before its first response
C17_Witness ==
    /\ fanout.active
    /\ ctx[1].pc = "awaiting" /\ ctx[2].pc = "awaiting"
    /\ ctx[1].totalToolCalls > 0 /\ ctx[1].iterations = 2 /\ Len(ctx[1].messages) = 3
    /\ ctx[2].totalToolCalls = 0 /\ ctx[2].iterations = 1 /\ Len(ctx[2].messages) = 1

\* The tools of a Subagent that run an external process: bash (the command),
\* code_search (rg or grep), feedback_loop (tsc, the test runner, eslint)
ProcessTools == {"bash", "code_search", "feedback_loop"}

\* The turn calls a tool that runs an external process
CallsProcess(content) ==
    \E i \in DOMAIN content : IsToolUse(content[i]) /\ content[i].name \in ProcessTools

\* C18: in a fan-out, control can pass to a sibling at each call of a model
\* endpoint and at each external process that backs a tool: a step of a task
\* that receives a turn with such a tool call leaves the task suspended at the
\* call, its turn recorded and the results of the turn not yet, so that a
\* sibling can take a step while the process runs
C18_ProcessIsSuspensionPoint ==
    [][\A s \in Slots :
          \E r \in {Respond(ctx[s].script, ctx[s].requests)} :
             ( /\ fanout.active /\ ctx[s].pc = "awaiting" /\ ctx'[s] # ctx[s]
               /\ ~r.throw /\ CallsProcess(r.content) )
             => IsTurn(ctx'[s].messages[Len(ctx'[s].messages)])
    ]_vars

\* C19: for every text and every T with at most 4 * T characters in the text,
\* truncateOutput(text, T) returns the text unchanged
C19_TruncationIdentity ==
    (truncation.pc = "returned" /\ Len(truncation.text) <= 4 * truncation.maxTokens)
        => truncation.returned = truncation.text

\* A text of exactly 4 * T characters, T = 30, has been returned as it is
C19_Witness ==
    /\ truncation.pc = "returned" /\ truncation.maxTokens = 30 /\ Len(truncation.text) = 120
    /\ truncation.returned = truncation.text

\* C20: for every text and every T >= 1, truncateOutput(text, T) has at most
\* 4 * T characters plus the length of the marker it inserted
C20_TruncationBound ==
    (truncation.pc = "returned" /\ truncation.maxTokens >= 1)
        => Len(truncation.returned)
             <= 4 * truncation.maxTokens + MarkerOverhead(truncation.text, truncation.maxTokens)

\* A text of 200 characters has been truncated under T = 30 to a head and a
\* tail of 10 characters around the marker
C20_Witness ==
    /\ truncation.pc = "returned" /\ truncation.maxTokens = 30 /\ Len(truncation.text) = 200
    /\ Len(truncation.returned) = 20 + MarkerOverhead(truncation.text, truncation.maxTokens)
    /\ MarkerOverhead(truncation.text, truncation.maxTokens) > 0

\* The length of the marker Subagent.truncateOutput of the single-file agent
\* inserts into text under budget T (0: it inserts none)
SubagentMarkerOverhead(text, T) ==
    IF Len(text) <= 4 * T THEN 0
    ELSE Len("\n\n... [OUTPUT TRUNCATED - " \o ToString(Len(text) - 4 * T)
             \o " chars removed to fit " \o ToString(T) \o " token limit] ...\n\n")

\* The characters of the text of the call that its returned value leaves out:
\* the length of the text minus what the value holds around its marker
Elided(c, marker) == Len(c.text) - (Len(c.returned) - marker)

\* C21: for every text longer than 4 * T characters, the number the marker
\* states is the number of characters of the text that were elided, i.e. the
\* length of the text minus the characters kept in the head and the tail
C21_MarkerStatesElided ==
    /\ (truncation.pc = "returned" /\ Len(truncation.text) > 4 * truncation.maxTokens) =>
          includes(truncation.returned,
                   "[TRUNCATED - "
                   \o ToString(Elided(truncation,
                                      MarkerOverhead(truncation.text, truncation.maxTokens)))
                   \o " chars removed]")
    /\ (truncation.pc = "subagent_returned"
        /\ Len(truncation.text) > 4 * truncation.maxTokens) =>
          includes(truncation.returned,
                   "[OUTPUT TRUNCATED - "
                   \o ToString(Elided(truncation,
                                      SubagentMarkerOverhead(truncation.text,
                                                             truncation.maxTokens)))
                   \o " chars removed to fit")

\* C22: for every budget T >= 1 and every text longer than 4 * T characters,
\* truncateOutput(text, T) is strictly shorter than the text and contains
\* the word TRUNCATED
C22_TruncationShortens ==
    (truncation.pc = "returned" /\ truncation.maxTokens >= 1
     /\ Len(truncation.text) > 4 * truncation.maxTokens) =>
        /\ Len(truncation.returned) < Len(truncation.text)
        /\ includes(truncation.returned, "TRUNCATED")

\* C23: a Subagent loop that ends at its iteration cap returns a value that
\* contains 'reached maximum iterations', whatever its maxOutputTokens >= 1
C23_CapReturnKeepsSentinel ==
    \A s \in Slots :
        (ctx[s].pc = "done" /\ ctx[s].role = "subagent" /\ ctx[s].outcome = "exhausted"
         /\ ctx[s].maxOutputTokens >= 1)
        => includes(ctx[s].result, "reached maximum iterations")

\* Main takes the return of the delegate it awaits
MainTakesReturn == mainPc = "executing" /\ (mainPc' # "executing" \/ mainIdx' # mainIdx)

\* The delegate Main awaits has returned after a failure of its endpoint
DelegateFailed == ~fanout.active /\ ctx[1].pc = "done" /\ ctx[1].outcome = "error"

\* The prefix of the string the catch block of a delegate returns
ErrorPrefix(role) ==
    CASE role = "oracle" -> "Oracle error: "
      [] role = "search" -> "Search error: "
      [] role = "librarian" -> "Librarian error: "
      [] role = "subagent" -> "Subagent error: "

\* C24: a failure of the endpoint during a delegate call comes back to Main as
\* an error string; Main makes it the result of the call like any other returned
\* string and goes on, with the rest of the turn and then its next request
C24_DelegateFailureBecomesResult ==
    [][(MainTakesReturn /\ DelegateFailed) =>
          LET result == ToolResultBlock(mainResp[mainIdx].id, ctx[1].result)
          IN /\ substring(ctx[1].result, 0, Len(ErrorPrefix(ctx[1].role)))
                  = ErrorPrefix(ctx[1].role)
             /\ \/ mainPc' = "executing" /\ result \in Range(toolResults')
                \/ /\ mainPc' = "awaiting" /\ mainRequests' = mainRequests + 1
                   /\ result \in Range(conversation'[Len(conversation')].content)]_vars

\* C25: a tool call whose arguments do not parse gets an error string as its
\* result and the loop that received it goes on: in the Oracle's conversation
\* every call of an assistant message is followed by a tool message with its
\* id, and the loop ends in an error only when its endpoint failed
C25_ParseFailureBecomesResult ==
    \A s \in Slots :
        (ctx[s].role = "oracle" /\ ctx[s].path = "openai" /\ ctx[s].pc \in {"awaiting", "done"})
        => /\ \A i \in DOMAIN ctx[s].messages :
                ctx[s].messages[i].role = "assistant" =>
                    \A toolCall \in Range(ctx[s].messages[i].tool_calls) :
                        \E j \in (i + 1)..Len(ctx[s].messages) :
                            /\ ctx[s].messages[j].role = "tool"
                            /\ ctx[s].messages[j].tool_call_id = toolCall.id
           /\ ctx[s].outcome = "error" => Respond(ctx[s].script, ctx[s].requests).throw

\* chat() is running
InChat(pc) == pc \in {"awaiting", "executing"}

\* C26: no failure ends the session. Whenever chat() is over, returned or
\* rejected, and a delegate failure included, askQuestion prompts for the next
\* input; a blank input prompts again and starts no loop (no message, no
\* request)
C26_SessionGoesOn ==
    [][/\ InChat(mainPc) => (InChat(mainPc') \/ mainPc' = "idle")
       /\ (mainPc = "idle" /\ trim(answer') = "")
            => /\ mainPc' = "idle"
               /\ conversation' = conversation
               /\ mainRequests' = mainRequests
               /\ \A s \in Slots : ctx'[s].pc = "idle"]_vars

\* After a chat() in which a delegate's endpoint failed, and after one that was
\* rejected itself, the user has entered a blank line and is prompted again
C26_Witness ==
    /\ mainPc = "idle"
    /\ answer = "  "
    /\ \E i \in DOMAIN conversation :
          /\ conversation[i].role = "user"
          /\ \E b \in Range(conversation[i].content) :
                b.type = "tool_result" /\ includes(b.content, "error: Connection error.")
    /\ conversation[Len(conversation)].role = "user"

\* The turns of conv alternate, a solicited turn (a user message or a batch of
\* tool results, role user) first and a response turn (role assistant) after each
Alternates(conv) ==
    \A i \in DOMAIN conv : conv[i].role = (IF i % 2 = 1 THEN "user" ELSE "assistant")

\* C27: the conversation of Main only grows at its end, and its turns alternate
\* between solicited turns and response turns, a solicited turn first, whatever
\* chat() calls were made and however they ended
C27_ConversationAlternates ==
    [][/\ Len(conversation') >= Len(conversation)
       /\ SubSeq(conversation', 1, Len(conversation)) = conversation
       /\ Alternates(conversation')]_vars

\* The text of the last turn c holds: all its text parts, in order
TurnText(c) == JoinTexts(LastTurn(c).content)

\* C28: a loop that converges returns the text of its most recent turn, all
\* the text parts of that turn in order, whatever its role and provider path
\* (a Subagent within its budget)
C28_ConvergenceReturnsTurnText ==
    \A s \in Slots :
        (ctx[s].pc = "done" /\ ctx[s].outcome = "converged" /\ TurnText(ctx[s]) # "")
        => ctx[s].result = IF ctx[s].role = "subagent"
                           THEN truncateOutput(TurnText(ctx[s]), ctx[s].maxOutputTokens)
                           ELSE TurnText(ctx[s])

\* The three results of a call of runFeedbackLoops that has returned
Checks(fb) == {fb.results.typescript, fb.results.tests, fb.results.lint}

\* C29: allPassed is true exactly when each of the three results is passed or
\* skipped; a skipped check never makes allPassed false
C29_AllPassedIffPassedOrSkipped ==
    feedback.pc = "returned" =>
        /\ feedback.results.allPassed = (\A r \in Checks(feedback) : r.passed \/ r.skipped)
        /\ (\A r \in Checks(feedback) : r.passed \/ r.skipped)
              => feedback.results.allPassed

\* Two checks were skipped, the third passed, and allPassed is true
C29_Witness ==
    /\ feedback.pc = "returned"
    /\ feedback.results.tests.skipped /\ feedback.results.lint.skipped
    /\ feedback.results.typescript.passed
    /\ feedback.results.allPassed

\* The run and the result of each of the three checks of a returned call
CheckPairs(fb) ==
    { <<fb.env.tsc, fb.results.typescript>>,
      <<fb.env.test, fb.results.tests>>,
      <<fb.env.eslint, fb.results.lint>> }

\* C30: each check has three outcomes: where its tool or its configuration is
\* absent the check is reported as skipped, not as failed, and does not make
\* allPassed false
C30_AbsentToolingIsSkipped ==
    feedback.pc = "returned" =>
        /\ \A p \in CheckPairs(feedback) : p[1].state = "absent" => (p[2].skipped /\ p[2].passed)
        /\ (\A p \in CheckPairs(feedback) : p[1].state \in {"pass", "absent"})
              => feedback.results.allPassed

\* C31: whenever the test command fails because a test fails, whatever the
\* failing run prints, the result has tests.passed = false and allPassed = false
C31_FailingTestFailsAll ==
    (feedback.pc = "returned" /\ feedback.env.test.state = "fail")
    => /\ ~feedback.results.tests.passed
       /\ ~feedback.results.allPassed

\* The checks of a returned feedback_loop call, each with the result of
\* runFeedbackLoops it reports
ReportedChecks(fb) ==
    { <<fb.call.results.typescript, fb.call.typescript>>,
      <<fb.call.results.tests, fb.call.tests>>,
      <<fb.call.results.lint, fb.call.lint>> }

\* C32: in Main and in a Subagent, the output of a failed check that the
\* feedback_loop tool returns to the model is the first 2000 characters of
\* what the check printed, and the returned text carries it
C32_FailedOutputCapped ==
    feedback.pc \in {"agent_returned", "subagent_returned"} =>
        \A p \in ReportedChecks(feedback) :
            ~p[1].passed =>
                /\ p[2].output = <<substring(p[1].output, 0, 2000)>>
                /\ Len(p[2].output[1]) <= 2000
                /\ includes(feedback.call.returned, substring(JSONString(p[2].output[1]), 0, 60))

\* C33: a feedback_loop call with fix_and_retry = true runs the checks again
\* after a failing run, up to 3 further times; with fix_and_retry = false the
\* checks run once
C33_FixAndRetryRetries ==
    feedback.pc = "agent_returned" =>
        /\ ~feedback.fixAndRetry => feedback.call.runs = 1
        /\ (feedback.fixAndRetry /\ ~feedback.call.results.allPassed)
              => feedback.call.runs \in 2..4

\* editFile has returned "Successfully edited <path>"
EditSucceeded ==
    /\ edit.pc = "returned"
    /\ edit.result = "Successfully edited " \o edit.path

\* content with its first occurrence of oldStr replaced by newStr, character
\* for character
LiteralReplace(content, oldStr, newStr) ==
    LET i == indexOf(content, oldStr, 0)
    IN SubSeq(content, 1, i) \o newStr \o SubSeq(content, i + Len(oldStr) + 1, Len(content))

\* C34: after editFile succeeds on an existing file that holds exactly one
\* occurrence of a non-empty old_str, the file holds its previous content with
\* that occurrence replaced by new_str taken literally, and no other file has
\* changed.
C34_EditReplacesLiterally ==
    EditSucceeded =>
        /\ fs[edit.path] = File(LiteralReplace(edit.before[edit.path].content,
                                               edit.oldStr, edit.newStr))
        /\ \A p \in Paths \ {edit.path} : fs[p] = edit.before[p]

\* C34 for the new_str that hold no dollar sign
C34_WithoutDollar ==
    (EditSucceeded /\ ~includes(edit.newStr, "$")) =>
        /\ fs[edit.path] = File(LiteralReplace(edit.before[edit.path].content,
                                               edit.oldStr, edit.newStr))
        /\ \A p \in Paths \ {edit.path} : fs[p] = edit.before[p]

\* editFile has returned from a call with an empty old_str on a path of the
\* working directory
EditWhole ==
    /\ edit.pc = "returned"
    /\ edit.oldStr = ""
    /\ edit.path \in Paths

EditFailed ==
    /\ edit.pc = "returned"
    /\ substring(edit.result, 0, 5) = "Error"

RECURSIVE At(_, _)
At(obj, path) ==
    IF path = <<>> THEN <<obj>>
    ELSE IF Head(path) \in DOMAIN obj THEN At(obj[Head(path)], Tail(path))
    ELSE <<>>

\* The fields of a configuration: the paths to the values that are not objects
Fields ==
    {<<"version">>}
    \cup {<<"models", r, k>> : r \in DOMAIN DEFAULT_CONFIG.models, k \in {"model", "provider"}}
    \cup {<<"feedbackLoops", k>> : k \in DOMAIN DEFAULT_CONFIG.feedbackLoops}
    \cup {<<"git", k>> : k \in DOMAIN DEFAULT_CONFIG.git}
    \cup {<<"security", k>> : k \in DOMAIN DEFAULT_CONFIG.security}

\* loadConfig has returned for a user file that parses
Merged == loaded.pc = "returned" /\ loaded.file.exists /\ loaded.file.valid

\* C37: in the configuration loadConfig returns for a user file, every field
\* the user file does not specify, at any depth, has its default value.
C37_UnspecifiedFieldsAreDefault ==
    Merged =>
        \A path \in Fields :
            At(loaded.file.userConfig, path) = <<>>
                => At(loaded.config, path) = At(DEFAULT_CONFIG, path)

\* C37 for the fields of a section the user file leaves out or that lie
\* directly in a section
C37_TwoLevels ==
    Merged =>
        \A path \in Fields :
            (/\ At(loaded.file.userConfig, path) = <<>>
             /\ Len(path) = 3 => At(loaded.file.userConfig, SubSeq(path, 1, 2)) = <<>>)
                => At(loaded.config, path) = At(DEFAULT_CONFIG, path)

\* The ids of the tool calls of a message of the Main conversation
ToolUseIds(m) ==
    {m.content[k].id : k \in {j \in DOMAIN m.content : m.content[j].type = "tool_use"}}

\* The ids of the calls a message of the Main conversation holds results for
ToolResultIds(m) ==
    {m.content[k].tool_use_id : k \in {j \in DOMAIN m.content : m.content[j].type = "tool_result"}}

\* C38: in the Main conversation every assistant turn that contains tool calls
\* is immediately followed by a message with results for all of its calls, in
\* every state reached by any sequence of chat() calls, those that abort
\* included; only the turn whose calls chat() is still executing is not yet
\* followed by them.
C38_ToolTurnsAnswered ==
    \A i \in DOMAIN conversation :
        (conversation[i].role = "assistant" /\ ToolUseIds(conversation[i]) # {}) =>
            IF i < Len(conversation)
            THEN /\ conversation[i + 1].role = "user"
                 /\ ToolResultIds(conversation[i + 1]) = ToolUseIds(conversation[i])
            ELSE mainPc = "executing"

\* C38 for the turns none of whose calls makes displayToolCall throw
C38_WithoutThrow ==
    \A i \in DOMAIN conversation :
        (/\ conversation[i].role = "assistant"
         /\ ToolUseIds(conversation[i]) # {}
         /\ \A k \in DOMAIN conversation[i].content :
               ~displayToolCallThrows(conversation[i].content[k].name,
                                      conversation[i].content[k].input)) =>
            IF i < Len(conversation)
            THEN /\ conversation[i + 1].role = "user"
                 /\ ToolResultIds(conversation[i + 1]) = ToolUseIds(conversation[i])
            ELSE mainPc = "executing"

\* The step in which the loop of slot s handles the turn that brings it to
\* its cap: a turn with tool calls, whose round of tool execution is the last
\* the cap allows
CapTurn(s) ==
    /\ ctx[s].pc = "awaiting"
    /\ ctx[s].role \in CappedRoles
    /\ ctx'[s].rounds = ctx[s].rounds + 1
    /\ ctx'[s].rounds = Cap(ctx[s].role)

\* The loop of slot s returns the exhausted sentinel
ReturnsSentinel(s) ==
    /\ ctx'[s].pc = "done"
    /\ ctx'[s].outcome = "exhausted"
    /\ includes(ctx'[s].result, SentinelText(ctx[s].role))

\* The calls of the cap turn have been executed: every call has its result, and
\* on the block-structured paths the results and the working directory are
\* those the executors of the role leave, edit_file and bash included
CapTurnExecuted(s) ==
    /\ Len(LastResults(ctx'[s])) = Len(LastCalls(ctx'[s]))
    /\ IF ctx[s].path = "gemini" THEN fs' = fs
       ELSE \E st \in {RunBlocks(ctx[s].role, LastTurn(ctx'[s]).content, 1, BlockState(fs, 0))} :
               /\ fs' = st.fs
               /\ LastResults(ctx'[s]) = [i \in DOMAIN st.toolResults |-> st.toolResults[i].content]

\* C39: when a Search, Librarian or Subagent loop receives tool calls in the
\* turn that brings it to its cap, the calls are executed (edit_file and bash
\* of a Subagent included), no request carries their results to the endpoint,
\* and the loop returns the exhausted sentinel.
C39_CapTurnRunsAndDrops ==
    [][\A s \in Slots :
          CapTurn(s) =>
             /\ CapTurnExecuted(s)
             /\ ctx'[s].requests = ctx[s].requests
             /\ ReturnsSentinel(s)]_vars

\* C39 with the two departures other defects cause left aside: on the
\* part-structured path of Search one more request carries the results
\* before the sentinel is returned, and the Subagent passes the sentinel
\* through truncateOutput
C39_ExceptKnown ==
    [][\A s \in Slots :
          CapTurn(s) =>
             /\ CapTurnExecuted(s)
             /\ IF ctx[s].path = "gemini"
                THEN /\ ctx'[s].requests = ctx[s].requests + 1
                     /\ ctx'[s].pc = "awaiting"
                ELSE /\ ctx'[s].requests = ctx[s].requests
                     /\ ctx'[s].pc = "done"
                     /\ ctx'[s].outcome = "exhausted"
                     /\ ctx'[s].result
                           = IF ctx[s].role = "subagent"
                             THEN truncateOutput(SentinelText("subagent") \o ".",
                                                 ctx[s].maxOutputTokens)
                             ELSE SentinelText(ctx[s].role)]_vars

\* C40: truncation is idempotent: for every text and every budget T >= 1,
\* truncateOutput applied with budget T to the value truncateOutput returned
\* for budget T returns that value unchanged.
C40_TruncationIdempotent ==
    (truncation.pc = "returned_again" /\ truncation.maxTokens >= 1)
        => truncation.again = truncation.returned

\* C40 for the budgets the marker fits in (44 characters at most here)
C40_FromEleven ==
    (truncation.pc = "returned_again" /\ truncation.maxTokens >= 11)
        => truncation.again = truncation.returned

====
